---- MODULE Spec2Model ----
(***************************************************************************)
(* Target/context registry, binding dispatch and request-interception      *)
(* router of the browser driver (Chromium: CRBrowser / CRBrowserContext,   *)
(* WebKit: WKBrowser / WKBrowserContext, shared: Page, PageBinding,        *)
(* BrowserContextBase).                                                    *)
(*                                                                         *)
(* Three specifications share the state:                                   *)
(*   SpecRoute   route registration and Page._requestStarted               *)
(*   SpecBind    exposeFunction and PageBinding.dispatch                   *)
(*   SpecTarget  target attach / construct / destroy and notifications     *)
(***************************************************************************)
EXTENDS Integers, Sequences, FiniteSets, TLC

VARIABLES
  backend,                \* "chromium" (CRBrowser) or "webkit" (WKBrowser)
  attachToDefaultContext, \* WKBrowser._attachToDefaultContext
  contexts,               \* keys of Browser._contexts
  targets,                \* keys of CRBrowser._targets / WKBrowser._wkPages
  objs,                   \* every target object ever constructed, by id
  popupOpeners,           \* Browser._popupOpeners
  firstPageCalls,         \* number of _firstPageCallback() invocations
  events,                 \* notifications emitted about each target, in order
  waiting,                \* popups suspended in `await opener.pageOrError()`
  announced,              \* number of target ids the engine has handed out
  lastCreate,             \* the last target-created event and what became of it
  lastAssert,             \* the last failed `assert(!this._targets.has(id))`
  interception,           \* per page: the last updateRequestInterception()
                          \* call, and what _needsRequestInterception() was
  ctxPermissions,         \* BrowserContextBase._permissions, per context
  protocolLog,            \* permission calls sent to the browser, in order
  lastGrant,              \* the last grantPermissions call and its outcome
  permOps,                \* number of permission calls made so far
  sessionState,           \* lifecycle of each protocol session
  protocolCalls,          \* the calls sent, by correlation id: their session
                          \* and outcome
  closeTriggers,          \* what has asked the connection to close so far
  disconnectedEmits,      \* number of Disconnected notifications of the browser
  ctxCloseEvents,         \* per context, number of _didCloseInternal runs
  debugLog,               \* failed delivery evaluations, passed to debugError
  escalated,              \* calls whose PageBinding.dispatch ended in an error
  received,               \* per page proxy, what was handed to its WKPage
  lastInbound,            \* the last inbound page-proxy event, where observed
  inboundOps,             \* number of inbound page-proxy events so far
  lastDestroy,            \* the last target-destroyed event, where observed
  debuggees,              \* protocol calls sent for each attached session of
                          \* a target that is not page-like, in order
  closedContexts,         \* contexts whose _closed flag is set
  connectionClosed,       \* connection._closed
  lastClose,              \* the context close() was last called on
  opens,                  \* window-open signals recorded, by opener id
  pageRoutes,             \* Page._routes, by page
  ctxRoutes,              \* BrowserContextBase._routes, by context
  routeSeq,               \* number of route registrations so far
  lastRequest,            \* outcome of the last Page._requestStarted
  pageBindings,           \* Page._pageBindings, by page
  ctxBindings,            \* BrowserContextBase._pageBindings, by context
  exposeCalls,            \* delegate.exposeBinding protocol calls sent
  lastSeq,                \* window[name].lastSeq of the page-side stub
  lastCall,               \* outcome of the last exposeFunction call
  calls,                  \* binding calls dispatched so far
  deliveries,             \* delivery expressions evaluated, with their count
  bindOps,                \* exposeFunction and binding calls made so far
  closeCalls,             \* context close() calls that reached the dispose
                          \* protocol call, in order
  lastCloseCall,          \* the last context close() call and whether it
                          \* sent a protocol call
  disposed,               \* context ids the engine has disposed
  browserClose,           \* how far the Browser.close() call has come
  emitsAtClose,           \* Disconnected notifications emitted before
                          \* Browser.close() subscribed to the next one
  owned,                  \* pages whose _ownedContext is set
  newPageCall,            \* how far the context's newPage() call has come
  newContextCall,         \* how far the browser's newContext() call has come
  pageCloseCall           \* how far the page's close() call has come

vars == <<backend, attachToDefaultContext, contexts, targets, objs,
          popupOpeners, firstPageCalls, events, waiting, announced,
          lastCreate, lastAssert, interception, lastDestroy, debuggees, closedContexts,
          connectionClosed, lastClose, opens,
          pageRoutes, ctxRoutes, routeSeq, lastRequest,
          ctxPermissions, protocolLog, lastGrant, permOps,
          received, lastInbound, inboundOps,
          sessionState, protocolCalls, closeTriggers, disconnectedEmits,
          ctxCloseEvents,
          pageBindings, ctxBindings, exposeCalls, lastSeq, lastCall,
          calls, deliveries, bindOps, debugLog, escalated,
          closeCalls, lastCloseCall, disposed, browserClose, emitsAtClose,
          owned, newPageCall, newContextCall, pageCloseCall>>

targetVars == <<contexts, targets, objs, popupOpeners, firstPageCalls,
                events, waiting, announced, lastCreate, lastAssert, opens>>
routeVars  == <<pageRoutes, ctxRoutes, routeSeq, lastRequest, interception>>
bindVars   == <<pageBindings, ctxBindings, exposeCalls, lastSeq, lastCall,
                calls, deliveries, bindOps, debugLog, escalated>>
configVars == <<backend, attachToDefaultContext>>
connVars   == <<sessionState, protocolCalls, closeTriggers,
                disconnectedEmits, ctxCloseEvents>>
inboundVars == <<received, lastInbound, inboundOps>>
permVars   == <<ctxPermissions, protocolLog, lastGrant, permOps>>
observerVars == <<lastDestroy>>
closeVars  == <<closeCalls, lastCloseCall, disposed, browserClose,
                emitsAtClose>>
callVars   == <<owned, newPageCall, newContextCall, pageCloseCall>>
lifeVars   == <<closeVars, callVars>>
sessionVars == <<debuggees, closedContexts, connectionClosed, lastClose>>

(***************************************************************************)
(* Bounds and value sets                                                   *)
(***************************************************************************)
MaxTargets == 3        \* target ids the engine hands out: 1..MaxTargets
MaxBuilt   == 2        \* targets announced while construction is followed
MaxSessions == 2       \* sessions attached to targets that are not page-like
MaxCalls   == 2        \* protocol calls sent over the connection
MaxInbound == 2        \* inbound page-proxy messages and load failures
MaxGrants  == 2        \* permission calls made on contexts
MaxOpens   == 1        \* window-open signals recorded in one behaviour
MaxRoutes  == 2        \* route registrations in one behaviour
MaxOps     == 3        \* exposeFunction and binding calls in one behaviour

Backends  == {"chromium", "webkit"}
Default   == "default"                 \* the default context (id null)
CtxIds    == {"c1"}                    \* ids of explicitly created contexts
AllCtx    == CtxIds \cup {Default}
TargetIds == 1 .. MaxTargets
NoTarget  == 0
Urls      == {"a", "b"}
\* a URLMatch is modelled by the set of request urls it matches
UrlMatches == (SUBSET Urls) \ {{}}

NoCtx     == "undefined"               \* no browserContextId reported
PageTypes == {"page", "background_page"}
\* the other types _onAttachedToTarget asserts
OtherTypes == {"service_worker", "browser", "other"}
Names     == {"f", "g"}                \* binding names
Fns       == {"sum", "boom", "raise"}  \* host functions
NoFn      == "undefined"
Args      == {1, 2}                    \* argument lists of a binding call

\* no request has started yet / no exposeFunction call has been made yet
NoRequest == [page |-> NoTarget, url |-> "a", intercepted |-> FALSE, seq |-> 0,
              outcome |-> [invoked |-> <<>>, continued |-> 0]]
NoCreate  == [targetId |-> NoTarget, type |-> "page",
              browserContextId |-> NoCtx, known |-> FALSE]
NoAssert  == [targetId |-> NoTarget,
              before |-> [targets |-> {}, objs |-> <<>>, popupOpeners |-> <<>>],
              after |-> [targets |-> {}, objs |-> <<>>, popupOpeners |-> <<>>]]
NoDestroy == [targetId |-> NoTarget, known |-> FALSE]
NoCall    == [op |-> "none", page |-> NoTarget, context |-> Default,
              name |-> "f", fn |-> NoFn, error |-> "none", at |-> 0,
              before |-> [page |-> <<>>, ctx |-> <<>>, sent |-> 0]]

(***************************************************************************)
(* Registry queries                                                        *)
(***************************************************************************)
\* an empty Map
EmptyBindings == [n \in {} |-> 0]

\* CRTarget.isPageType
isPageType(type) == type \in {"page", "background_page"}

\* mutant: the context keeps every target it ever owned
targetsOfCached(ctx) == {t \in DOMAIN objs : objs[t].context = ctx}

\* CRBrowserContext._targets / WKBrowserContext._wkPages : scan of the registry
targetsOf(ctx) == {t \in targets : objs[t].context = ctx}

\* CRTarget._initializedPage / WKPage._initializedPage() is non-null
initialized(t) == objs[t].result = "page"

\* CRBrowserContext.pages / WKBrowserContext.pages
pages(ctx) ==
  IF backend = "chromium"
  THEN {t \in targetsOf(ctx) : objs[t].type = "page" /\ initialized(t)}
  ELSE {t \in targetsOf(ctx) : initialized(t)}

\* CRBrowserContext.backgroundPages
backgroundPages(ctx) ==
  {t \in targetsOf(ctx) : objs[t].type = "background_page" /\ initialized(t)}

\* Page objects handed to the user: constructed successfully, any kind,
\* whether or not still registered
PageObjects == {t \in DOMAIN objs : initialized(t)}

\* targets with a CRPage / WKPage, which report window.open and can be
\* named as opener
Openers == {t \in targets : isPageType(objs[t].type)}

\* pages that still receive requests and binding calls
OpenPages == {t \in PageObjects : t \in targets /\ ~objs[t].closed}

\* contexts that exist: the default one and the registered ones
LiveContexts == contexts \cup {Default}

\* Page._browserContext
contextOf(p) == objs[p].context

(***************************************************************************)
(* Target registry                                                         *)
(***************************************************************************)
\* a target object (CRTarget / WKPage with its Page) as constructed by
\* _createTarget / _onPageProxyCreated: pageOrError pending, page open
TargetObj(type, ctx, opener, blank, result) ==
  [type |-> type, context |-> ctx, opener |-> opener,
   hasInitialAboutBlank |-> blank, result |-> result, closed |-> FALSE,
   destroyedWhilePending |-> FALSE]

\* a notification; registered tells whether the target was in the registry
\* when the listeners ran
Event(kind, t, on, registered) ==
  [kind |-> kind, target |-> t, on |-> on, registered |-> registered]

\* Array.indexOf
RECURSIVE indexOf(_, _, _)
indexOf(seq, x, i) ==
  IF i > Len(seq) THEN 0
  ELSE IF seq[i] = x THEN i
  ELSE indexOf(seq, x, i + 1)

\* mutant: the matched entry stays in the queue
spliceNothing(seq, i) == seq

\* Array.splice(i, 1)
splice(seq, i) == [j \in 1 .. Len(seq) - 1 |-> IF j < i THEN seq[j] ELSE seq[j + 1]]

\* CRBrowser.newContext / WKBrowser.newContext, initialization succeeding
Browser_newContext(id) ==
  /\ id \notin contexts
  /\ contexts' = contexts \cup {id}
  /\ UNCHANGED <<targets, objs, popupOpeners, firstPageCalls, events,
                 waiting, announced, lastCreate, lastAssert, opens>>
  /\ UNCHANGED <<observerVars, sessionVars, connVars, inboundVars, permVars, lifeVars, configVars, routeVars, bindVars>>

\* number of window-open signals recorded so far
RECURSIVE Recorded(_)
Recorded(t) == IF t = 0 THEN 0 ELSE opens[t] + Recorded(t - 1)

\* CRBrowser._onWindowOpen / WKBrowser._onWindowOpen: the opener id is
\* pushed, except on Chromium for window.open('about:blank', 'noopener')
Browser_onWindowOpen(openerId, noopenerBlank) ==
  /\ Recorded(MaxTargets) < MaxOpens
  /\ IF backend = "chromium" /\ noopenerBlank
     THEN UNCHANGED <<popupOpeners, opens>>
     ELSE /\ popupOpeners' = Append(popupOpeners, openerId)
          /\ opens' = [opens EXCEPT ![openerId] = @ + 1]
  /\ UNCHANGED <<contexts, targets, objs, firstPageCalls, events, waiting,
                 announced, lastCreate, lastAssert>>
  /\ UNCHANGED <<observerVars, sessionVars, connVars, inboundVars, permVars, lifeVars, configVars, routeVars, bindVars>>

\* CRBrowser._createTarget line 160 / WKBrowser._onPageProxyCreated lines
\* 180-191: the owning context; NoCtx when the event is ignored
ResolveContext(browserContextId) ==
  IF browserContextId # NoCtx /\ browserContextId \in contexts
  THEN browserContextId
  ELSE IF backend = "webkit" /\ ~attachToDefaultContext THEN NoCtx
  ELSE Default

\* CRTarget.opener(): the opener reference of a new target, kept only when
\* a window-open signal corroborated it
CRTarget_opener(openerId, corroborated) ==
  IF corroborated /\ openerId \in targets THEN openerId ELSE NoTarget

\* WKBrowser._onPageProxyCreated line 195
WKPage_opener(openerId) ==
  IF openerId # NoTarget /\ openerId \in targets THEN openerId ELSE NoTarget

\* CRBrowser._createTarget / WKBrowser._onPageProxyCreated lines 177-208:
\* resolve the context, consume the popup-opener queue, register the target
CreateTarget(id, type, browserContextId, openerId) ==
  LET context == ResolveContext(browserContextId)
      openerIndex == IF isPageType(type) /\ openerId # NoTarget
                     THEN indexOf(popupOpeners, openerId, 1) ELSE 0
      hasInitialAboutBlank == openerIndex # 0
      opener == IF backend = "chromium"
                THEN CRTarget_opener(openerId, hasInitialAboutBlank)
                ELSE WKPage_opener(openerId)
  IN  /\ lastCreate' = [targetId |-> id, type |-> type,
                        browserContextId |-> browserContextId,
                        known |-> browserContextId \in contexts]
      /\ announced' = announced + 1
      /\ IF context = NoCtx
         THEN UNCHANGED <<targets, objs, popupOpeners>>
         ELSE /\ popupOpeners' = IF openerIndex # 0
                                 THEN splice(popupOpeners, openerIndex)
                                 ELSE popupOpeners
              /\ targets' = targets \cup {id}
              /\ objs' = [t \in DOMAIN objs \cup {id} |->
                            IF t = id
                            THEN TargetObj(type, context, opener,
                                           hasInitialAboutBlank,
                                           IF isPageType(type) THEN "pending"
                                           ELSE "none")
                            ELSE objs[t]]
      /\ UNCHANGED <<contexts, firstPageCalls, events, waiting, opens,
                     lastAssert>>
      /\ UNCHANGED <<observerVars, sessionVars, connVars, inboundVars, permVars, lifeVars, configVars, routeVars, bindVars>>

\* CRBrowser._createTarget for an id that is already registered: the
\* popup-opener queue is consumed (lines 162-171) and the CRTarget
\* constructed before `assert(!this._targets.has(targetId))` throws at line
\* 173; the registry is not written
Browser_onAttachedToLiveTarget(id, type, openerId) ==
  LET openerIndex == IF isPageType(type) /\ openerId # NoTarget
                     THEN indexOf(popupOpeners, openerId, 1) ELSE 0
  IN  /\ backend = "chromium"
      /\ id \in targets
      /\ popupOpeners' = IF openerIndex # 0
                         THEN splice(popupOpeners, openerIndex)
                         ELSE popupOpeners
      /\ lastAssert' = [targetId |-> id,
                        before |-> [targets |-> targets, objs |-> objs,
                                    popupOpeners |-> popupOpeners],
                        after |-> [targets |-> targets, objs |-> objs,
                                   popupOpeners |-> popupOpeners']]
      /\ UNCHANGED <<contexts, targets, objs, firstPageCalls, events, waiting,
                     announced, lastCreate, opens>>
      /\ UNCHANGED <<observerVars, sessionVars, connVars, inboundVars, permVars, lifeVars, configVars, routeVars, bindVars>>

\* CRBrowser._onAttachedToTarget for a page-like target,
\* WKBrowser._onPageProxyCreated
Browser_onAttachedToTarget(type, browserContextId, openerId) ==
  /\ announced < MaxTargets
  /\ isPageType(type)
  /\ backend = "webkit" => type = "page"
  /\ CreateTarget(announced + 1, type, browserContextId, openerId)

\* mutant: detach is sent together with the resume call, not after it
Browser_onAttachedToOtherDetachAtOnce(type, waitingForDebugger) ==
  /\ backend = "chromium"
  /\ Len(debuggees) < MaxSessions
  /\ debuggees' = Append(debuggees,
       [type |-> type, waitingForDebugger |-> waitingForDebugger,
        sent |-> IF waitingForDebugger
                 THEN <<"Runtime.runIfWaitingForDebugger",
                        "Target.detachFromTarget">>
                 ELSE <<>>])
  /\ UNCHANGED <<closedContexts, connectionClosed, lastClose>>
  /\ UNCHANGED <<targetVars, observerVars, connVars, inboundVars, permVars, lifeVars, configVars, routeVars, bindVars>>

\* CRBrowser._onAttachedToTarget lines 118-128, for a target that is not
\* page-like: nothing is created; when it waits for the debugger the
\* resume call is sent on its session
Browser_onAttachedToOther(type, waitingForDebugger) ==
  /\ backend = "chromium"
  /\ Len(debuggees) < MaxSessions
  /\ debuggees' = Append(debuggees,
       [type |-> type, waitingForDebugger |-> waitingForDebugger,
        sent |-> IF waitingForDebugger
                 THEN <<"Runtime.runIfWaitingForDebugger">>
                 ELSE <<>>])
  /\ UNCHANGED <<closedContexts, connectionClosed, lastClose>>
  /\ UNCHANGED <<targetVars, observerVars, connVars, inboundVars, permVars, lifeVars, configVars, routeVars, bindVars>>

\* the resume call of session s settles, with a result or an error:
\* `.catch(debugError).then(() => send('Target.detachFromTarget'))`
Session_resumeSettles(s, ok) ==
  /\ debuggees[s].sent = <<"Runtime.runIfWaitingForDebugger">>
  /\ debuggees' = [debuggees EXCEPT ![s].sent =
       @ \o <<IF ok THEN "resumed" ELSE "resume failed",
              "Target.detachFromTarget">>]
  /\ UNCHANGED <<closedContexts, connectionClosed, lastClose>>
  /\ UNCHANGED <<targetVars, observerVars, connVars, inboundVars, permVars, lifeVars, configVars, routeVars, bindVars>>

\* CRBrowser._targetCreated: service workers are registered without a session
Browser_targetCreated(browserContextId) ==
  /\ announced < MaxTargets
  /\ backend = "chromium"
  /\ CreateTarget(announced + 1, "service_worker", browserContextId, NoTarget)

\* mutant: the popup notification is emitted whatever became of the opener
PopupEventsUnchecked(t, o) ==
  <<Event("popup", t, o[t].opener, t \in targets)>>

\* `if (openerPage instanceof Page && !openerPage.isClosed())
\*    openerPage.emit(Popup, pageEvent)` for popup t, given the objects o
PopupEvents(t, o) ==
  LET opener == o[t].opener
  IN  IF o[opener].result = "page" /\ ~o[opener].closed
      THEN <<Event("popup", t, opener, t \in targets)>>
      ELSE <<>>

\* continuation of popup w suspended in `await opener.pageOrError()` on
\* target t, resumed when t's result settles
ResumeWaiting(w, t, o) ==
  IF w \in waiting /\ o[w].opener = t THEN PopupEvents(w, o) ELSE <<>>

\* the callback of `pageOrError().then(async () => {...})`, run when the
\* deferred result of t settles, given the objects o after it settled:
\* notifications emitted before the first suspension, number of
\* _firstPageCallback() calls, and whether it suspends on the opener
PageOrErrorThen(t, o) ==
  IF backend = "chromium" /\ o[t].type = "background_page"
  THEN [events |-> <<Event("backgroundpage", t, o[t].context, t \in targets)>>,
        firstPage |-> 0, suspends |-> FALSE]
  ELSE LET page == <<Event("page", t, o[t].context, t \in targets)>>
       IN  IF o[t].opener = NoTarget
           THEN [events |-> page, firstPage |-> 1, suspends |-> FALSE]
           ELSE IF o[o[t].opener].result = "pending"
           THEN [events |-> page, firstPage |-> 1, suspends |-> TRUE]
           ELSE [events |-> page \o PopupEvents(t, o), firstPage |-> 1,
                 suspends |-> FALSE]

\* Construction of t's page object completes: CRPage.initialize /
\* WKPage initialization succeeds (result "page", only while the target's
\* session is alive) or fails (result "error"); pageOrError settles and the
\* callbacks waiting on it run.
Target_pageOrErrorSettles(t, result) ==
  LET o == [objs EXCEPT ![t].result = result]
      then == PageOrErrorThen(t, o)
  IN  /\ objs[t].result = "pending"
      /\ result = "page" => t \in targets /\ ~objs[t].closed
      /\ objs' = o
      /\ firstPageCalls' = firstPageCalls + then.firstPage
      /\ events' = [w \in TargetIds |->
                      IF w = t THEN events[t] \o then.events
                      ELSE events[w] \o ResumeWaiting(w, t, o)]
      /\ waiting' = (waiting \ {w \in waiting : o[w].opener = t})
                       \cup (IF then.suspends THEN {t} ELSE {})
      /\ UNCHANGED <<contexts, targets, popupOpeners, announced, lastCreate,
                     lastAssert, opens>>
      /\ UNCHANGED <<observerVars, sessionVars, connVars, inboundVars, permVars, lifeVars, configVars, routeVars, bindVars>>

\* CRTarget._didClose / WKPage.didClose -> Page._didClose: the page is
\* marked closed and its Close notification emitted
DidClose(t, o, registered) ==
  IF isPageType(o[t].type)
  THEN [objs |-> [o EXCEPT ![t].closed = TRUE,
                           ![t].destroyedWhilePending = (o[t].result = "pending")],
        events |-> <<Event("close", t, t, registered)>>]
  ELSE [objs |-> o, events |-> <<>>]

\* mutant: no `if (!target) return`: an id that is no longer registered is
\* closed again
Browser_targetDestroyedNoLookup(t) ==
  /\ IF t \notin DOMAIN objs
     THEN UNCHANGED <<targets, objs, events>>
     ELSE LET closed == DidClose(t, objs, backend = "webkit")
          IN  /\ targets' = targets \ {t}
              /\ objs' = closed.objs
              /\ events' = [events EXCEPT ![t] = @ \o closed.events]
  /\ UNCHANGED <<contexts, popupOpeners, firstPageCalls, waiting, announced,
                 lastCreate, lastAssert, opens>>
  /\ UNCHANGED <<sessionVars, connVars, inboundVars, permVars, lifeVars, configVars, routeVars, bindVars>>

\* CRBrowser._targetDestroyed: delete from the registry, then _didClose.
\* WKBrowser._onPageProxyDestroyed: didClose, dispose, then delete.
\* (lastDestroy is left to the specification: see TargetDestroyed* below)
Browser_targetDestroyed(t) ==
  /\ IF t \notin targets
     THEN UNCHANGED <<targets, objs, events>>
     ELSE LET closed == DidClose(t, objs, backend = "webkit")
          IN  /\ targets' = targets \ {t}
              /\ objs' = closed.objs
              /\ events' = [events EXCEPT ![t] = @ \o closed.events]
  /\ UNCHANGED <<contexts, popupOpeners, firstPageCalls, waiting, announced,
                 lastCreate, lastAssert, opens>>
  /\ UNCHANGED <<sessionVars, connVars, inboundVars, permVars, lifeVars, configVars, routeVars, bindVars>>

\* a target-destroyed event for id t, its id and whether it was registered
\* recorded / not recorded
TargetDestroyedObserved(t) ==
  /\ Browser_targetDestroyed(t)
  /\ lastDestroy' = [targetId |-> t, known |-> t \in targets]

TargetDestroyed(t) ==
  /\ Browser_targetDestroyed(t)
  /\ UNCHANGED lastDestroy

(***************************************************************************)
(* Inbound page-proxy events (WebKit)                                      *)
(***************************************************************************)
NoInbound == [pageProxyId |-> NoTarget, kind |-> "none", known |-> FALSE,
              at |-> 0]
InboundKinds == {"message", "provisionalLoadFailed"}

\* mutant: no `if (!wkPage) return`
Browser_onPageProxyEventNoLookup(pageProxyId, kind) ==
  /\ backend = "webkit"
  /\ inboundOps < MaxInbound
  /\ inboundOps' = inboundOps + 1
  /\ received' = [received EXCEPT ![pageProxyId] = Append(@, kind)]
  /\ lastInbound' = [pageProxyId |-> pageProxyId, kind |-> kind,
                     known |-> pageProxyId \in targets, at |-> inboundOps + 1]
  /\ UNCHANGED <<observerVars, sessionVars, connVars, permVars, lifeVars, configVars,
                 targetVars, routeVars, bindVars>>

\* WKBrowser._onPageProxyMessageReceived (kind "message": the message goes
\* to wkPage.dispatchMessageToSession) and WKBrowser._onProvisionalLoadFailed
\* (wkPage.handleProvisionalLoadFailed): both look the page proxy up in
\* _wkPages and return when it is not there
Browser_onPageProxyEvent(pageProxyId, kind) ==
  /\ backend = "webkit"
  /\ inboundOps < MaxInbound
  /\ inboundOps' = inboundOps + 1
  /\ received' = IF pageProxyId \in targets
                 THEN [received EXCEPT ![pageProxyId] = Append(@, kind)]
                 ELSE received
  /\ lastInbound' = [pageProxyId |-> pageProxyId, kind |-> kind,
                     known |-> pageProxyId \in targets, at |-> inboundOps + 1]
  /\ UNCHANGED <<observerVars, sessionVars, connVars, permVars, lifeVars, configVars,
                 targetVars, routeVars, bindVars>>

(***************************************************************************)
(* Connection and sessions                                                 *)
(***************************************************************************)
RootSession == 0
SessionIds == RootSession .. MaxSessions
TargetClosedError == "target closed"
ConnectionClosedError == "connection closed"
Outcomes == {"pending", "resolved", "failed", TargetClosedError,
             ConnectionClosedError}

\* the pending calls of the sessions in ss are rejected with error
RejectCalls(cs, ss, error) ==
  [i \in DOMAIN cs |->
     IF cs[i].outcome = "pending" /\ cs[i].session \in ss
     THEN [cs[i] EXCEPT !.outcome = error] ELSE cs[i]]

\* connection close marks every session closed with the connection
CloseSessions(st) ==
  [x \in DOMAIN st |-> IF st[x] = "open" THEN "closed" ELSE st[x]]

\* a session-attach event for session x; ids are handed out in order
Connection_attachSession(x) ==
  /\ ~connectionClosed
  /\ x # RootSession /\ sessionState[x] = "unattached"
  /\ sessionState[x - 1] # "unattached"
  /\ sessionState' = [sessionState EXCEPT ![x] = "open"]
  /\ UNCHANGED <<protocolCalls, closeTriggers, disconnectedEmits,
                 ctxCloseEvents>>
  /\ UNCHANGED <<observerVars, sessionVars, inboundVars, permVars, lifeVars, configVars, targetVars,
                 routeVars, bindVars>>

\* mutant: a call on a session that is gone is left pending
Session_sendAlwaysPending(x) ==
  /\ Len(protocolCalls) < MaxCalls
  /\ sessionState[x] # "unattached"
  /\ protocolCalls' = Append(protocolCalls,
       [session |-> x, outcome |-> "pending"])
  /\ UNCHANGED <<sessionState, closeTriggers, disconnectedEmits,
                 ctxCloseEvents>>
  /\ UNCHANGED <<observerVars, sessionVars, inboundVars, permVars, lifeVars, configVars, targetVars,
                 routeVars, bindVars>>

\* Session.send: the next correlation id; pending while the session is
\* open, rejected at once on a session that is detached or closed
Session_send(x) ==
  /\ Len(protocolCalls) < MaxCalls
  /\ sessionState[x] # "unattached"
  /\ protocolCalls' = Append(protocolCalls,
       [session |-> x,
        outcome |-> IF sessionState[x] = "open" THEN "pending"
                    ELSE IF sessionState[x] = "detached" THEN TargetClosedError
                    ELSE ConnectionClosedError])
  /\ UNCHANGED <<sessionState, closeTriggers, disconnectedEmits,
                 ctxCloseEvents>>
  /\ UNCHANGED <<observerVars, sessionVars, inboundVars, permVars, lifeVars, configVars, targetVars,
                 routeVars, bindVars>>

\* inbound response for correlation id: the pending entry is removed and
\* fulfilled with the result or rejected with the protocol error
Connection_response(id, ok) ==
  /\ ~connectionClosed
  /\ id \in DOMAIN protocolCalls /\ protocolCalls[id].outcome = "pending"
  /\ protocolCalls' = [protocolCalls EXCEPT ![id].outcome =
                         IF ok THEN "resolved" ELSE "failed"]
  /\ UNCHANGED <<sessionState, closeTriggers, disconnectedEmits,
                 ctxCloseEvents>>
  /\ UNCHANGED <<observerVars, sessionVars, inboundVars, permVars, lifeVars, configVars, targetVars,
                 routeVars, bindVars>>

\* mutant: a detach rejects whatever is pending on the connection
Session_detachRejectsAll(x) ==
  /\ x # RootSession /\ sessionState[x] \in {"open", "detached"}
  /\ sessionState' = [sessionState EXCEPT ![x] = "detached"]
  /\ protocolCalls' = RejectCalls(protocolCalls, SessionIds, TargetClosedError)
  /\ UNCHANGED <<closeTriggers, disconnectedEmits, ctxCloseEvents>>
  /\ UNCHANGED <<observerVars, sessionVars, inboundVars, permVars, lifeVars, configVars, targetVars,
                 routeVars, bindVars>>

\* Session.detach (idempotent): terminal, and the calls pending on this
\* session are rejected
Session_detach(x) ==
  /\ x # RootSession /\ sessionState[x] \in {"open", "detached"}
  /\ sessionState' = [sessionState EXCEPT ![x] = "detached"]
  /\ protocolCalls' = RejectCalls(protocolCalls, {x}, TargetClosedError)
  /\ UNCHANGED <<closeTriggers, disconnectedEmits, ctxCloseEvents>>
  /\ UNCHANGED <<observerVars, sessionVars, inboundVars, permVars, lifeVars, configVars, targetVars,
                 routeVars, bindVars>>

\* mutant: _browserClosed closes every page the context ever had
ClosingPagesEverOwned == {t \in PageObjects : objs[t].context \in contexts}

\* the pages _browserClosed closes: pages() of the registered contexts
ClosingPages == UNION {pages(c) : c \in contexts}

\* mutant: the handler only emits Disconnected
Browser_onDisconnectedEmitOnly ==
  /\ disconnectedEmits' = disconnectedEmits + 1
  /\ targets' = IF backend = "webkit" THEN {} ELSE targets
  /\ UNCHANGED <<closedContexts, ctxCloseEvents, objs, events>>

\* the browser's handler of the connection's Disconnected event
\* (crBrowser.ts 80-84, download-browser.js 140-148): _browserClosed on
\* every registered context, which closes its pages() and marks it closed;
\* the browser's own Disconnected; on WebKit _wkPages is cleared
Browser_onDisconnected ==
  /\ closedContexts' = closedContexts \cup contexts
  /\ ctxCloseEvents' = [c \in AllCtx |->
       ctxCloseEvents[c] + (IF c \in contexts THEN 1 ELSE 0)]
  /\ objs' = [t \in DOMAIN objs |->
       IF t \in ClosingPages THEN DidClose(t, objs, TRUE).objs[t]
       ELSE objs[t]]
  /\ events' = [t \in TargetIds |->
       IF t \in ClosingPages
       THEN events[t] \o DidClose(t, objs, TRUE).events ELSE events[t]]
  /\ targets' = IF backend = "webkit" THEN {} ELSE targets
  /\ disconnectedEmits' = disconnectedEmits + 1

\* the connection is asked to close, by connection.close() or by the
\* transport's onclose.  The first trigger closes the sessions, rejects
\* every pending call with one error and emits Disconnected; a later
\* trigger does nothing.
Connection_close(trigger) ==
  /\ trigger \notin closeTriggers
  /\ closeTriggers' = closeTriggers \cup {trigger}
  /\ IF connectionClosed
     THEN UNCHANGED <<connectionClosed, sessionState, protocolCalls,
                      disconnectedEmits, closedContexts, ctxCloseEvents,
                      objs, events, targets>>
     ELSE /\ connectionClosed' = TRUE
          /\ sessionState' = CloseSessions(sessionState)
          /\ protocolCalls' =
               RejectCalls(protocolCalls, SessionIds, ConnectionClosedError)
          /\ Browser_onDisconnected
  /\ UNCHANGED <<contexts, debuggees, lastClose, popupOpeners,
                 firstPageCalls, waiting, announced, lastCreate, lastAssert,
                 opens>>
  /\ UNCHANGED <<observerVars, inboundVars, permVars, lifeVars, configVars, routeVars, bindVars>>

\* mutant: the default context is disposed like any other context
BrowserContext_closeOnlyItself(c) ==
  /\ c \notin closedContexts
  /\ contexts' = contexts \ {c}
  /\ closedContexts' = closedContexts \cup {c}
  /\ lastClose' = c
  /\ UNCHANGED <<connectionClosed, targets>>
  /\ UNCHANGED <<debuggees, objs, popupOpeners, firstPageCalls, events,
                 waiting, announced, lastCreate, lastAssert, opens>>
  /\ UNCHANGED <<observerVars, connVars, inboundVars, permVars, lifeVars, configVars, routeVars, bindVars>>

\* CRBrowserContext.close / WKBrowserContext.close.  On the default context
\* (no browserContextId) it is Browser.close: every registered context is
\* closed, then the connection, whose Disconnected handler runs
\* _browserClosed on the contexts still registered (none) and, on WebKit,
\* clears _wkPages.  On another context: dispose it, delete it from
\* _contexts, _didCloseInternal.
BrowserContext_close(c) ==
  /\ c \notin closedContexts
  /\ IF c = Default
     THEN LET closing == contexts \ closedContexts
          IN  /\ contexts' = contexts \ closing
              /\ closedContexts' = closedContexts \cup closing
              /\ ctxCloseEvents' = [x \in AllCtx |->
                   ctxCloseEvents[x] + (IF x \in closing THEN 1 ELSE 0)]
              /\ closeTriggers' = closeTriggers \cup {"close"}
              /\ connectionClosed' = TRUE
              /\ IF connectionClosed
                 THEN UNCHANGED <<targets, sessionState, protocolCalls,
                                  disconnectedEmits>>
                 ELSE /\ targets' = IF backend = "webkit" THEN {} ELSE targets
                      /\ sessionState' = CloseSessions(sessionState)
                      /\ protocolCalls' =
                           RejectCalls(protocolCalls, SessionIds, ConnectionClosedError)
                      /\ disconnectedEmits' = disconnectedEmits + 1
     ELSE /\ contexts' = contexts \ {c}
          /\ closedContexts' = closedContexts \cup {c}
          /\ ctxCloseEvents' = [ctxCloseEvents EXCEPT ![c] = @ + 1]
          /\ UNCHANGED <<connectionClosed, targets, sessionState,
                         protocolCalls, closeTriggers, disconnectedEmits>>
  /\ lastClose' = c
  /\ UNCHANGED <<debuggees, objs, popupOpeners, firstPageCalls, events,
                 waiting, announced, lastCreate, lastAssert, opens>>
  /\ UNCHANGED <<observerVars, inboundVars, permVars, lifeVars, configVars, routeVars, bindVars>>

\* the close() calls Browser.close() made on the registered contexts
BrowserCloseCalls == {i \in DOMAIN closeCalls : closeCalls[i].by = "browser"}

\* a set as a sequence, in some order
RECURSIVE SeqOf(_)
SeqOf(S) ==
  IF S = {} THEN <<>>
  ELSE LET x == CHOOSE y \in S : TRUE IN <<x>> \o SeqOf(S \ {x})

\* the dispose calls sent by close() on each context of cs, made by `by`
DisposeCalls(cs, by) ==
  [i \in 1 .. Len(cs) |->
     [context |-> cs[i], by |-> by,
      outcome |-> IF connectionClosed THEN ConnectionClosedError
                  ELSE "pending"]]

\* mutant: close() has no `if (this._closed) return`
BrowserContext_closeCalledNoCheck(c) ==
  /\ c \in contexts \cup closedContexts
  /\ Len(closeCalls) < MaxCalls
  /\ closeCalls' = closeCalls \o DisposeCalls(<<c>>, "context")
  /\ lastCloseCall' = [context |-> c, closed |-> c \in closedContexts,
                       sent |-> TRUE]
  /\ UNCHANGED <<disposed, browserClose, emitsAtClose>>
  /\ UNCHANGED <<callVars, observerVars, sessionVars, connVars, inboundVars, permVars,
                 configVars, targetVars, routeVars, bindVars>>

\* CRBrowserContext.close / WKBrowserContext.close of a created context, up
\* to its await: nothing on a context marked closed, else the dispose call
\* is sent
BrowserContext_closeCalled(c) ==
  /\ c \in contexts \cup closedContexts
  /\ IF c \in closedContexts
     THEN /\ lastCloseCall' = [context |-> c, closed |-> TRUE, sent |-> FALSE]
          /\ UNCHANGED closeCalls
     ELSE /\ Len(closeCalls) < MaxCalls
          /\ closeCalls' = closeCalls \o DisposeCalls(<<c>>, "context")
          /\ lastCloseCall' = [context |-> c, closed |-> FALSE, sent |-> TRUE]
  /\ UNCHANGED <<disposed, browserClose, emitsAtClose>>
  /\ UNCHANGED <<callVars, observerVars, sessionVars, connVars, inboundVars, permVars,
                 configVars, targetVars, routeVars, bindVars>>

\* the dispose call of close() call i settles and close() goes on after its
\* await: on success the context is deleted from _contexts and
\* _didCloseInternal marks it closed and emits Close; a rejected call ends
\* close().  The engine disposes a context once: it answers a dispose of
\* an id it no longer has with an error.
BrowserContext_closeSettles(i, ok) ==
  /\ i \in DOMAIN closeCalls /\ closeCalls[i].outcome = "pending"
  /\ LET c == closeCalls[i].context
     IN  /\ ok => c \notin disposed
         /\ IF ok /\ ~connectionClosed
            THEN /\ closeCalls' = [closeCalls EXCEPT ![i].outcome = "resolved"]
                 /\ disposed' = disposed \cup {c}
                 /\ contexts' = contexts \ {c}
                 /\ closedContexts' = closedContexts \cup {c}
                 /\ ctxCloseEvents' = [ctxCloseEvents EXCEPT ![c] = @ + 1]
            ELSE /\ closeCalls' = [closeCalls EXCEPT ![i].outcome =
                       IF connectionClosed THEN ConnectionClosedError
                       ELSE "failed"]
                 /\ UNCHANGED <<disposed, contexts, closedContexts,
                                ctxCloseEvents>>
  /\ UNCHANGED <<lastCloseCall, browserClose, emitsAtClose>>
  /\ UNCHANGED <<targets, objs, popupOpeners, firstPageCalls, events, waiting,
                 announced, lastCreate, lastAssert, opens, debuggees,
                 connectionClosed, lastClose, sessionState, protocolCalls,
                 closeTriggers, disconnectedEmits>>
  /\ UNCHANGED <<callVars, observerVars, inboundVars, permVars, configVars, routeVars,
                 bindVars>>

\* Browser.close up to its first await: it subscribes to the connection's
\* next Disconnected and calls close() on every registered context
Browser_closeCalled ==
  /\ browserClose = "idle"
  /\ LET open == SeqOf(contexts \ closedContexts)
     IN  /\ Len(closeCalls) + Len(open) <= MaxCalls
         /\ closeCalls' = closeCalls \o DisposeCalls(open, "browser")
  /\ emitsAtClose' = disconnectedEmits
  /\ browserClose' = "contexts"
  /\ UNCHANGED <<lastCloseCall, disposed>>
  /\ UNCHANGED <<callVars, observerVars, sessionVars, connVars, inboundVars, permVars,
                 configVars, targetVars, routeVars, bindVars>>

\* mutant: the connection is closed without awaiting the contexts
Browser_closeContinuesAtOnce ==
  /\ browserClose = "contexts"
  /\ browserClose' = "awaiting"
  /\ closeTriggers' = closeTriggers \cup {"close"}
  /\ IF connectionClosed
     THEN UNCHANGED <<connectionClosed, sessionState, protocolCalls,
                      disconnectedEmits, closedContexts, ctxCloseEvents,
                      objs, events, targets>>
     ELSE /\ connectionClosed' = TRUE
          /\ sessionState' = CloseSessions(sessionState)
          /\ protocolCalls' =
               RejectCalls(protocolCalls, SessionIds, ConnectionClosedError)
          /\ Browser_onDisconnected
  /\ UNCHANGED <<closeCalls, lastCloseCall, disposed, emitsAtClose>>
  /\ UNCHANGED <<contexts, debuggees, lastClose, popupOpeners,
                 firstPageCalls, waiting, announced, lastCreate, lastAssert,
                 opens>>
  /\ UNCHANGED <<callVars, observerVars, inboundVars, permVars, configVars, routeVars,
                 bindVars>>

\* Browser.close after `await Promise.all(...)`: a rejected context close
\* rejects Browser.close; once every one has resolved the connection is
\* closed, and Browser.close awaits the Disconnected it subscribed to
Browser_closeContinues ==
  /\ browserClose = "contexts"
  /\ IF \E i \in BrowserCloseCalls :
          closeCalls[i].outcome \notin {"pending", "resolved"}
     THEN /\ browserClose' = "rejected"
          /\ UNCHANGED <<closeTriggers, connectionClosed, sessionState,
                         protocolCalls, disconnectedEmits, closedContexts,
                         ctxCloseEvents, objs, events, targets>>
     ELSE /\ \A i \in BrowserCloseCalls : closeCalls[i].outcome = "resolved"
          /\ browserClose' = "awaiting"
          /\ closeTriggers' = closeTriggers \cup {"close"}
          /\ IF connectionClosed
             THEN UNCHANGED <<connectionClosed, sessionState, protocolCalls,
                              disconnectedEmits, closedContexts,
                              ctxCloseEvents, objs, events, targets>>
             ELSE /\ connectionClosed' = TRUE
                  /\ sessionState' = CloseSessions(sessionState)
                  /\ protocolCalls' =
                       RejectCalls(protocolCalls, SessionIds,
                                   ConnectionClosedError)
                  /\ Browser_onDisconnected
  /\ UNCHANGED <<closeCalls, lastCloseCall, disposed, emitsAtClose>>
  /\ UNCHANGED <<contexts, debuggees, lastClose, popupOpeners,
                 firstPageCalls, waiting, announced, lastCreate, lastAssert,
                 opens>>
  /\ UNCHANGED <<callVars, observerVars, inboundVars, permVars, configVars, routeVars,
                 bindVars>>

\* Browser.close after `await disconnected`: the Disconnected it subscribed
\* to has been emitted
Browser_closeResolves ==
  /\ browserClose = "awaiting"
  /\ disconnectedEmits > emitsAtClose
  /\ browserClose' = "resolved"
  /\ UNCHANGED <<closeCalls, lastCloseCall, disposed, emitsAtClose>>
  /\ UNCHANGED <<callVars, observerVars, sessionVars, connVars, inboundVars, permVars,
                 configVars, targetVars, routeVars, bindVars>>

\* CRBrowser.newContext / WKBrowser.newContext up to `await
\* context._initialize()`: the engine has created a context and answered
\* with its id, the context object is constructed and not registered
Browser_newContextCalled(id) ==
  /\ newContextCall.state = "none"
  /\ ~connectionClosed
  /\ id \notin contexts \cup closedContexts
  /\ newContextCall' = [id |-> id, state |-> "initializing"]
  /\ UNCHANGED <<owned, newPageCall, pageCloseCall, closeVars>>
  /\ UNCHANGED <<observerVars, sessionVars, connVars, inboundVars, permVars,
                 configVars, targetVars, routeVars, bindVars>>

\* newContext after `await context._initialize()`: registered and returned
\* when the initialization succeeded; when it failed newContext rejects
\* there
Browser_newContextInitialized(ok) ==
  /\ newContextCall.state = "initializing"
  /\ ok => ~connectionClosed
  /\ newContextCall' = [newContextCall EXCEPT !.state =
       IF ok THEN "registered" ELSE "failed"]
  /\ contexts' = IF ok THEN contexts \cup {newContextCall.id} ELSE contexts
  /\ UNCHANGED <<owned, newPageCall, pageCloseCall, closeVars>>
  /\ UNCHANGED <<targets, objs, popupOpeners, firstPageCalls, events,
                 waiting, announced, lastCreate, lastAssert, opens>>
  /\ UNCHANGED <<observerVars, sessionVars, connVars, inboundVars, permVars,
                 configVars, routeVars, bindVars>>

\* the browserContextId sent with a call on behalf of a context, and
\* reported by the engine for the targets of that context: none for the
\* default context
browserContextIdOf(ctx) == IF ctx = Default THEN NoCtx ELSE ctx

\* assertBrowserContextIsNotOwned throws
IsOwned(ctx) == \E p \in pages(ctx) : p \in owned

\* CRBrowserContext.newPage / WKBrowserContext.newPage up to its first
\* await: the assertion, then the create call is sent.  `target` is the id
\* the engine gives the target it creates for the call.
BrowserContext_newPageCalled(ctx) ==
  /\ newPageCall.state = "none"
  /\ announced < MaxTargets
  /\ newPageCall' =
       IF IsOwned(ctx) \/ connectionClosed
       THEN [context |-> ctx, target |-> NoTarget, state |-> "failed"]
       ELSE [context |-> ctx, target |-> announced + 1, state |-> "sent"]
  /\ UNCHANGED <<owned, newContextCall, pageCloseCall, closeVars>>
  /\ UNCHANGED <<observerVars, sessionVars, connVars, inboundVars, permVars,
                 configVars, targetVars, routeVars, bindVars>>

\* the create call settles: rejected (by the engine, or by the connection
\* closing), or newPage() goes on with `_targets.get(targetId)!` and fails
\* on `undefined.pageOrError()` when the id is not in the registry
BrowserContext_newPageCreated(ok) ==
  /\ newPageCall.state = "sent"
  /\ ok => ~connectionClosed
  /\ newPageCall' = [newPageCall EXCEPT !.state =
       IF ok /\ newPageCall.target \in targets THEN "awaiting"
       ELSE "failed"]
  /\ UNCHANGED <<owned, newContextCall, pageCloseCall, closeVars>>
  /\ UNCHANGED <<observerVars, sessionVars, connVars, inboundVars, permVars,
                 configVars, targetVars, routeVars, bindVars>>

\* mutant: the page is returned without looking at isClosed()
BrowserContext_newPageSettlesNoCheck ==
  /\ newPageCall.state = "awaiting"
  /\ objs[newPageCall.target].result # "pending"
  /\ newPageCall' = [newPageCall EXCEPT !.state =
       IF objs[newPageCall.target].result = "page"
       THEN "returned" ELSE "failed"]
  /\ UNCHANGED <<owned, newContextCall, pageCloseCall, closeVars>>
  /\ UNCHANGED <<observerVars, sessionVars, connVars, inboundVars, permVars,
                 configVars, targetVars, routeVars, bindVars>>

\* newPage() after `await target.pageOrError()`: the page is returned
\* unless it is closed; an error result is thrown
BrowserContext_newPageSettles ==
  /\ newPageCall.state = "awaiting"
  /\ objs[newPageCall.target].result # "pending"
  /\ newPageCall' = [newPageCall EXCEPT !.state =
       IF /\ objs[newPageCall.target].result = "page"
          /\ ~objs[newPageCall.target].closed
       THEN "returned" ELSE "failed"]
  /\ UNCHANGED <<owned, newContextCall, pageCloseCall, closeVars>>
  /\ UNCHANGED <<observerVars, sessionVars, connVars, inboundVars, permVars,
                 configVars, targetVars, routeVars, bindVars>>

\* Page.close up to `await this._delegate.closePage(...)`: nothing on a
\* closed page; the assertion on a disconnected page; else the close call
\* of the delegate is sent
Page_closeCalled(p, runBeforeUnload) ==
  /\ pageCloseCall.state = "none"
  /\ pageCloseCall' =
       [page |-> p, runBeforeUnload |-> runBeforeUnload,
        wasClosed |-> objs[p].closed,
        sent |-> ~objs[p].closed /\ ~connectionClosed,
        state |-> IF objs[p].closed THEN "resolved"
                  ELSE IF connectionClosed THEN "failed" ELSE "sent"]
  /\ UNCHANGED <<owned, newPageCall, newContextCall, closeVars>>
  /\ UNCHANGED <<observerVars, sessionVars, connVars, inboundVars, permVars,
                 configVars, targetVars, routeVars, bindVars>>

\* the delegate's close call settles: Page.close rejects with it, or goes
\* on to `if (!runBeforeUnload) await this._closedPromise`
Page_closePageSettles(ok) ==
  /\ pageCloseCall.state = "sent"
  /\ ok => ~connectionClosed
  /\ pageCloseCall' = [pageCloseCall EXCEPT !.state =
       IF ok THEN "awaiting" ELSE "failed"]
  /\ UNCHANGED <<owned, newPageCall, newContextCall, closeVars>>
  /\ UNCHANGED <<observerVars, sessionVars, connVars, inboundVars, permVars,
                 configVars, targetVars, routeVars, bindVars>>

\* mutant: _closedPromise is not awaited
Page_closeContinuesNoWait ==
  LET p == pageCloseCall.page
      ctx == contextOf(p)
      disposes == p \in owned /\ ctx \notin closedContexts
  IN  /\ pageCloseCall.state = "awaiting"
      /\ disposes => Len(closeCalls) < MaxCalls
      /\ closeCalls' = IF disposes
                       THEN closeCalls \o DisposeCalls(<<ctx>>, "page")
                       ELSE closeCalls
      /\ pageCloseCall' = [pageCloseCall EXCEPT !.state =
           IF disposes THEN "closingContext" ELSE "resolved"]
      /\ UNCHANGED <<owned, newPageCall, newContextCall, lastCloseCall,
                     disposed, browserClose, emitsAtClose>>
      /\ UNCHANGED <<observerVars, sessionVars, connVars, inboundVars,
                     permVars, configVars, targetVars, routeVars, bindVars>>

\* Page.close once _closedPromise is fulfilled (by Page._didClose), or at
\* once with runBeforeUnload: close() of the owned context is called, if
\* the page has one
Page_closeContinues ==
  LET p == pageCloseCall.page
      ctx == contextOf(p)
      disposes == p \in owned /\ ctx \notin closedContexts
  IN  /\ pageCloseCall.state = "awaiting"
      /\ pageCloseCall.runBeforeUnload \/ objs[p].closed
      /\ disposes => Len(closeCalls) < MaxCalls
      /\ closeCalls' = IF disposes
                       THEN closeCalls \o DisposeCalls(<<ctx>>, "page")
                       ELSE closeCalls
      /\ pageCloseCall' = [pageCloseCall EXCEPT !.state =
           IF disposes THEN "closingContext" ELSE "resolved"]
      /\ UNCHANGED <<owned, newPageCall, newContextCall, lastCloseCall,
                     disposed, browserClose, emitsAtClose>>
      /\ UNCHANGED <<observerVars, sessionVars, connVars, inboundVars,
                     permVars, configVars, targetVars, routeVars, bindVars>>

\* Page.close after `await this._ownedContext.close()`
Page_closeResolves ==
  /\ pageCloseCall.state = "closingContext"
  /\ \E i \in DOMAIN closeCalls :
       /\ closeCalls[i].by = "page" /\ closeCalls[i].outcome # "pending"
       /\ pageCloseCall' = [pageCloseCall EXCEPT !.state =
            IF closeCalls[i].outcome = "resolved" THEN "resolved"
            ELSE "failed"]
  /\ UNCHANGED <<owned, newPageCall, newContextCall, closeVars>>
  /\ UNCHANGED <<observerVars, sessionVars, connVars, inboundVars, permVars,
                 configVars, targetVars, routeVars, bindVars>>

(***************************************************************************)
(* Permissions                                                             *)
(***************************************************************************)
PermissionNames == {"geolocation", "camera", "bogus"}
\* the `origin` option: absent, or a URL
NoOrigin == "none"
OriginOptions == {NoOrigin, "https://a.test", "https://a.test/path"}
Origins == {"*", "https://a.test"}
NoPageClose == [page |-> NoTarget, runBeforeUnload |-> FALSE,
                wasClosed |-> FALSE, sent |-> FALSE, state |-> "none"]
NoNewContext == [id |-> NoCtx, state |-> "none"]
NoNewPage == [context |-> NoCtx, target |-> NoTarget, state |-> "none"]
NoCloseCall == [context |-> NoCtx, closed |-> FALSE, sent |-> FALSE]
NoError == [kind |-> "none", permission |-> "none"]
NoGrant == [context |-> NoCtx, origin |-> "*", permissions |-> <<>>,
            error |-> NoError, sentBefore |-> 0, sentAfter |-> 0]
\* the permission arrays callers pass: one or two distinct names
PermissionLists ==
  {<<a>> : a \in PermissionNames}
    \cup {ps \in PermissionNames \X PermissionNames : ps[1] # ps[2]}

\* new URL(options.origin).origin
UrlOrigin(option) == IF option = NoOrigin THEN "*" ELSE "https://a.test"

\* webPermissionToProtocol of the backend, over PermissionNames
webPermissionToProtocol ==
  IF backend = "chromium"
  THEN [p \in {"geolocation", "camera"} |->
          IF p = "camera" THEN "videoCapture" ELSE "geolocation"]
  ELSE [p \in {"geolocation"} |-> "geolocation"]

\* new Set(existing) with every permission added, as a list: insertion order
RECURSIVE AddAll(_, _)
AddAll(list, permissions) ==
  IF permissions = <<>> THEN list
  ELSE AddAll(IF \E i \in DOMAIN list : list[i] = Head(permissions)
              THEN list ELSE Append(list, Head(permissions)),
              Tail(permissions))

\* permissions.map(...): the protocol names, or the first unknown permission
RECURSIVE Filtered(_)
Filtered(list) ==
  IF list = <<>> THEN [error |-> NoError, permissions |-> <<>>]
  ELSE IF Head(list) \notin DOMAIN webPermissionToProtocol
       THEN [error |-> [kind |-> "Unknown permission",
                        permission |-> Head(list)],
             permissions |-> <<>>]
       ELSE LET rest == Filtered(Tail(list))
            IN  IF rest.error # NoError THEN rest
                ELSE [error |-> NoError,
                      permissions |-> <<webPermissionToProtocol[Head(list)]>>
                                        \o rest.permissions]

\* mutant: the call is sent with the permissions that are known, and the
\* unknown one is reported afterwards
DoGrantPermissionsSendFirst(ctx, origin, list) ==
  LET f == Filtered(list)
      known == Filtered(SelectSeq(list,
                 LAMBDA p : p \in DOMAIN webPermissionToProtocol))
  IN  [error |-> f.error,
       sent |-> <<[method |-> "grantPermissions", context |-> ctx,
                   origin |-> origin, permissions |-> known.permissions]>>]

\* CRBrowserContext._doGrantPermissions / WKBrowserContext._doGrantPermissions:
\* the error thrown, and the protocol calls sent
DoGrantPermissions(ctx, origin, list) ==
  LET f == Filtered(list)
  IN  IF f.error # NoError THEN [error |-> f.error, sent |-> <<>>]
      ELSE [error |-> NoError,
            sent |-> <<[method |-> "grantPermissions", context |-> ctx,
                        origin |-> origin, permissions |-> f.permissions]>>]

\* BrowserContextBase.grantPermissions(permissions, {origin})
BrowserContext_grantPermissions(ctx, permissions, option) ==
  LET origin == UrlOrigin(option)
      list == AddAll(ctxPermissions[ctx][origin], permissions)
      done == DoGrantPermissions(ctx, origin, list)
  IN  /\ permOps < MaxGrants
      /\ permOps' = permOps + 1
      /\ ctxPermissions' = [ctxPermissions EXCEPT ![ctx][origin] = list]
      /\ protocolLog' = protocolLog \o done.sent
      /\ lastGrant' = [context |-> ctx, origin |-> origin,
                       permissions |-> permissions, error |-> done.error,
                       sentBefore |-> Len(protocolLog),
                       sentAfter |-> Len(protocolLog) + Len(done.sent)]
      /\ UNCHANGED <<observerVars, sessionVars, connVars, inboundVars, lifeVars, configVars,
                     targetVars, routeVars, bindVars>>

\* BrowserContextBase.clearPermissions
BrowserContext_clearPermissions(ctx) ==
  /\ permOps < MaxGrants
  /\ permOps' = permOps + 1
  /\ ctxPermissions' = [ctxPermissions EXCEPT ![ctx] = [o \in Origins |-> <<>>]]
  /\ protocolLog' = Append(protocolLog,
       [method |-> "resetPermissions", context |-> ctx, origin |-> "*",
        permissions |-> <<>>])
  /\ UNCHANGED <<lastGrant, observerVars, sessionVars, connVars, inboundVars, lifeVars, configVars, targetVars,
                 routeVars, bindVars>>

(***************************************************************************)
(* Request interception router                                             *)
(***************************************************************************)
\* helper.urlMatches(request.url(), url)
urlMatches(url, match) == url \in match

\* `for (const {url, handler} of routes) if (urlMatches) { handler(); return }`
\* index of the first entry of routes, from i on, that matches; 0 if none
RECURSIVE FirstMatch(_, _, _)
FirstMatch(routes, url, i) ==
  IF i > Len(routes) THEN 0
  ELSE IF urlMatches(url, routes[i].url) THEN i
  ELSE FirstMatch(routes, url, i + 1)

\* mutant: the loop keeps the last matching entry
RECURSIVE LastMatch(_, _, _)
LastMatch(routes, url, i) ==
  IF i > Len(routes) THEN 0
  ELSE LET rest == LastMatch(routes, url, i + 1)
       IN  IF rest # 0 THEN rest
           ELSE IF urlMatches(url, routes[i].url) THEN i ELSE 0

\* mutant: no `return` after the page-level handler: the context loop and
\* route.continue() run as well
RouteOutcomeNoReturn(p, url, intercepted) ==
  LET pr == pageRoutes[p]
      cr == ctxRoutes[contextOf(p)]
      pi == FirstMatch(pr, url, 1)
      ci == FirstMatch(cr, url, 1)
  IN  IF ~intercepted THEN [invoked |-> <<>>, continued |-> 0]
      ELSE [invoked |-> (IF pi # 0 THEN <<pr[pi].handler>> ELSE <<>>) \o
                        (IF ci # 0 THEN <<cr[ci].handler>> ELSE <<>>),
            continued |-> IF ci # 0 THEN 0 ELSE 1]

\* mutant: context-level routes are consulted before page-level routes
RouteOutcomeContextFirst(p, url, intercepted) ==
  LET pr == pageRoutes[p]
      cr == ctxRoutes[contextOf(p)]
      pi == FirstMatch(pr, url, 1)
      ci == FirstMatch(cr, url, 1)
  IN  IF ~intercepted THEN [invoked |-> <<>>, continued |-> 0]
      ELSE IF ci # 0 THEN [invoked |-> <<cr[ci].handler>>, continued |-> 0]
      ELSE IF pi # 0 THEN [invoked |-> <<pr[pi].handler>>, continued |-> 0]
      ELSE [invoked |-> <<>>, continued |-> 1]

\* mutant: the last matching route of a table wins
RouteOutcomeLastMatch(p, url, intercepted) ==
  LET pr == pageRoutes[p]
      cr == ctxRoutes[contextOf(p)]
      pi == LastMatch(pr, url, 1)
      ci == LastMatch(cr, url, 1)
  IN  IF ~intercepted THEN [invoked |-> <<>>, continued |-> 0]
      ELSE IF pi # 0 THEN [invoked |-> <<pr[pi].handler>>, continued |-> 0]
      ELSE IF ci # 0 THEN [invoked |-> <<cr[ci].handler>>, continued |-> 0]
      ELSE [invoked |-> <<>>, continued |-> 1]

\* Page._requestStarted: the handlers invoked and the number of
\* route.continue() calls made for one request
RouteOutcome(p, url, intercepted) ==
  LET pr == pageRoutes[p]
      cr == ctxRoutes[contextOf(p)]
      pi == FirstMatch(pr, url, 1)
      ci == FirstMatch(cr, url, 1)
  IN  IF ~intercepted THEN [invoked |-> <<>>, continued |-> 0]
      ELSE IF pi # 0 THEN [invoked |-> <<pr[pi].handler>>, continued |-> 0]
      ELSE IF ci # 0 THEN [invoked |-> <<cr[ci].handler>>, continued |-> 0]
      ELSE [invoked |-> <<>>, continued |-> 1]

\* Page._needsRequestInterception
needsRequestInterception(p) ==
  Len(pageRoutes[p]) > 0 \/ Len(ctxRoutes[contextOf(p)]) > 0

\* mutant: the new route is put in front
Page_routeUnshift(p, match) ==
  /\ routeSeq < MaxRoutes
  /\ routeSeq' = routeSeq + 1
  /\ pageRoutes' = [pageRoutes EXCEPT ![p] =
                      <<[url |-> match, handler |-> routeSeq + 1]>> \o @]
  /\ UNCHANGED <<ctxRoutes, lastRequest>>
  /\ interception' = [interception EXCEPT ![p] =
       [at |-> routeSeq', needed |-> needsRequestInterception(p)']]
  /\ UNCHANGED <<observerVars, sessionVars, connVars, inboundVars, permVars, lifeVars, configVars, targetVars, bindVars>>

\* Page.route(url, handler): append, then updateRequestInterception.
\* The handler is identified by its registration number.
Page_route(p, match) ==
  /\ routeSeq < MaxRoutes
  /\ routeSeq' = routeSeq + 1
  /\ pageRoutes' = [pageRoutes EXCEPT ![p] =
                      Append(@, [url |-> match, handler |-> routeSeq + 1])]
  /\ UNCHANGED <<ctxRoutes, lastRequest>>
  /\ interception' = [interception EXCEPT ![p] =
       [at |-> routeSeq', needed |-> needsRequestInterception(p)']]
  /\ UNCHANGED <<observerVars, sessionVars, connVars, inboundVars, permVars, lifeVars, configVars, targetVars, bindVars>>

\* mutant: the pages are updated before the route is appended
BrowserContext_routeUpdateFirst(ctx, match) ==
  /\ routeSeq < MaxRoutes
  /\ routeSeq' = routeSeq + 1
  /\ ctxRoutes' = [ctxRoutes EXCEPT ![ctx] =
                     Append(@, [url |-> match, handler |-> routeSeq + 1])]
  /\ UNCHANGED <<pageRoutes, lastRequest>>
  /\ UNCHANGED <<observerVars, sessionVars, connVars, inboundVars, permVars, lifeVars, configVars, targetVars, bindVars>>
  /\ interception' = [p \in TargetIds |->
       IF p \in pages(ctx)
       THEN [at |-> routeSeq, needed |-> needsRequestInterception(p)]
       ELSE interception[p]]

\* CRBrowserContext.route / WKBrowserContext.route: append, then
\* updateRequestInterception on every page of this.pages()
BrowserContext_route(ctx, match) ==
  /\ routeSeq < MaxRoutes
  /\ routeSeq' = routeSeq + 1
  /\ ctxRoutes' = [ctxRoutes EXCEPT ![ctx] =
                     Append(@, [url |-> match, handler |-> routeSeq + 1])]
  /\ UNCHANGED <<pageRoutes, lastRequest>>
  /\ UNCHANGED <<observerVars, sessionVars, connVars, inboundVars, permVars, lifeVars, configVars, targetVars, bindVars>>
  /\ interception' = [p \in TargetIds |->
       IF p \in pages(ctx)
       THEN [at |-> routeSeq', needed |-> needsRequestInterception(p)']
       ELSE interception[p]]
  /\ UNCHANGED <<observerVars, sessionVars, connVars, inboundVars, permVars, lifeVars, configVars, targetVars, bindVars>>

\* Page._requestStarted(request); intercepted <=> request._route() non-null.
\* seq records how many routes were registered when the request started.
Page_requestStarted(p, url, intercepted) ==
  /\ lastRequest' = [page |-> p, url |-> url, intercepted |-> intercepted,
                     seq |-> routeSeq,
                     outcome |-> RouteOutcome(p, url, intercepted)]
  /\ UNCHANGED <<pageRoutes, ctxRoutes, routeSeq, interception>>
  /\ UNCHANGED <<observerVars, sessionVars, connVars, inboundVars, permVars, lifeVars, configVars, targetVars, bindVars>>

(***************************************************************************)
(* Binding registration and dispatch                                       *)
(***************************************************************************)
has(map, name) == name \in DOMAIN map

\* Map.set(name, binding)
set(map, name, fn) == [n \in DOMAIN map \cup {name} |->
                        IF n = name THEN fn ELSE map[n]]

\* outcome of an exposeFunction call; `at` numbers the calls of a behaviour
ExposeRecord(op, p, ctx, name, fn, error) ==
  [op |-> op, page |-> p, context |-> ctx, name |-> name, fn |-> fn,
   error |-> error, at |-> bindOps + 1,
   before |-> [page |-> pageBindings, ctx |-> ctxBindings,
               sent |-> exposeCalls]]

\* mutant: Page.exposeFunction without the check of the page's own map
PageExposeErrorNoPageCheck(p, name) ==
  IF has(ctxBindings[contextOf(p)], name)
  THEN "already registered in the browser context"
  ELSE "none"

\* Page.exposeFunction: the error thrown before insertion, if any
PageExposeError(p, name) ==
  IF has(pageBindings[p], name) THEN "already registered"
  ELSE IF has(ctxBindings[contextOf(p)], name)
  THEN "already registered in the browser context"
  ELSE "none"

\* Page.exposeFunction(name, playwrightFunction)
Page_exposeFunction(p, name, fn) ==
  LET error == PageExposeError(p, name)
  IN  /\ bindOps < MaxOps
      /\ bindOps' = bindOps + 1
      /\ lastCall' = ExposeRecord("Page.exposeFunction", p, contextOf(p),
                                  name, fn, error)
      /\ IF error = "none"
         THEN /\ pageBindings' = [pageBindings EXCEPT ![p] = set(@, name, fn)]
              /\ exposeCalls' = exposeCalls + 1
         ELSE UNCHANGED <<pageBindings, exposeCalls>>
      /\ UNCHANGED <<ctxBindings, lastSeq, calls, deliveries, debugLog, escalated>>
      /\ UNCHANGED <<observerVars, sessionVars, connVars, inboundVars, permVars, lifeVars, configVars, targetVars, routeVars>>

\* CRBrowserContext.exposeFunction / WKBrowserContext.exposeFunction: the
\* error thrown before insertion, if any
ContextExposeError(ctx, name) ==
  IF \E p \in pages(ctx) : has(pageBindings[p], name)
  THEN "already registered in one of the pages"
  ELSE IF has(ctxBindings[ctx], name) THEN "already registered"
  ELSE "none"

\* CRBrowserContext.exposeFunction / WKBrowserContext.exposeFunction
BrowserContext_exposeFunction(ctx, name, fn) ==
  LET error == ContextExposeError(ctx, name)
  IN  /\ bindOps < MaxOps
      /\ bindOps' = bindOps + 1
      /\ lastCall' = ExposeRecord("BrowserContext.exposeFunction", NoTarget,
                                  ctx, name, fn, error)
      /\ IF error = "none"
         THEN /\ ctxBindings' = [ctxBindings EXCEPT ![ctx] = set(@, name, fn)]
              /\ exposeCalls' = exposeCalls + Cardinality(pages(ctx))
         ELSE UNCHANGED <<ctxBindings, exposeCalls>>
      /\ UNCHANGED <<pageBindings, lastSeq, calls, deliveries, debugLog, escalated>>
      /\ UNCHANGED <<observerVars, sessionVars, connVars, inboundVars, permVars, lifeVars, configVars, targetVars, routeVars>>

\* mutant: a missing binding is called as `binding?.playwrightFunction`
HostOutcomeOptional(fn, args) ==
  CASE fn = "sum"   -> [kind |-> "return", value |-> args + 10]
    [] fn = "boom"  -> [kind |-> "throwError", message |-> "boom",
                        stack |-> "Error: boom"]
    [] fn = "raise" -> [kind |-> "throwValue", value |-> args + 20]
    [] OTHER        -> [kind |-> "return", value |-> 0]

\* binding.playwrightFunction(...args): what the host function does; with
\* no binding, the TypeError of `binding!.playwrightFunction`
HostOutcome(fn, args) ==
  CASE fn = "sum"   -> [kind |-> "return", value |-> args + 10]
    [] fn = "boom"  -> [kind |-> "throwError", message |-> "boom",
                        stack |-> "Error: boom"]
    [] fn = "raise" -> [kind |-> "throwValue", value |-> args + 20]
    [] OTHER        -> [kind |-> "throwError",
                        message |-> "Cannot read property of undefined",
                        stack |-> "TypeError"]

\* context.evaluate(expression): one more evaluation of expression d
evaluate(log, d) == [e \in DOMAIN log \cup {d} |->
                      IF e = d THEN (IF d \in DOMAIN log THEN log[d] + 1 ELSE 1)
                      ELSE log[e]]

\* mutant: the context-level binding is looked up first
ResolveBindingContextFirst(p, name) ==
  IF has(ctxBindings[contextOf(p)], name)
  THEN ctxBindings[contextOf(p)][name]
  ELSE IF has(pageBindings[p], name) THEN pageBindings[p][name]
  ELSE NoFn

\* PageBinding.dispatch, lines 853-855: page-level binding first, then the
\* context-level one
ResolveBinding(p, name) ==
  IF has(pageBindings[p], name) THEN pageBindings[p][name]
  ELSE IF has(ctxBindings[contextOf(p)], name)
  THEN ctxBindings[contextOf(p)][name]
  ELSE NoFn

\* mutant: every outcome is delivered through deliverResult
DeliveryResultOnly(c) ==
  LET o == HostOutcome(c.fn, c.args)
  IN  [kind |-> "deliverResult", page |-> c.page, name |-> c.name,
       seq |-> c.seq,
       value |-> IF o.kind = "throwError" THEN o.message ELSE o.value,
       stack |-> ""]

\* PageBinding.dispatch, lines 856-863: the delivery expression for call c
Delivery(c) ==
  LET o == HostOutcome(c.fn, c.args)
  IN  CASE o.kind = "return" ->
             [kind |-> "deliverResult", page |-> c.page, name |-> c.name,
              seq |-> c.seq, value |-> o.value, stack |-> ""]
        [] o.kind = "throwError" ->
             [kind |-> "deliverError", page |-> c.page, name |-> c.name,
              seq |-> c.seq, value |-> o.message, stack |-> o.stack]
        [] o.kind = "throwValue" ->
             [kind |-> "deliverErrorValue", page |-> c.page, name |-> c.name,
              seq |-> c.seq, value |-> o.value, stack |-> ""]

\* mutant: the stub does not store the number it handed out
Page_onBindingCalledSameSeq(p, name, args) ==
  LET seq == 1
      fn == ResolveBinding(p, name)
      c == [page |-> p, name |-> name, seq |-> seq, args |-> args,
            fn |-> fn, done |-> fn = NoFn, at |-> bindOps + 1]
  IN  /\ bindOps < MaxOps
      /\ bindOps' = bindOps + 1
      /\ lastSeq' = [lastSeq EXCEPT ![p][name] = seq]
      /\ calls' = calls \cup {c}
      /\ deliveries' = IF fn = NoFn THEN evaluate(deliveries, Delivery(c))
                       ELSE deliveries
      /\ UNCHANGED <<pageBindings, ctxBindings, exposeCalls, lastCall,
                     debugLog, escalated>>
      /\ UNCHANGED <<observerVars, sessionVars, connVars, inboundVars, permVars, lifeVars, configVars, targetVars, routeVars>>

\* The page-side stub (addPageBinding) numbers the call, then
\* Page._onBindingCalled -> PageBinding.dispatch resolves the binding and
\* invokes the host function. A missing binding throws inside the try block
\* and is delivered at once; otherwise dispatch suspends in `await`.
Page_onBindingCalled(p, name, args) ==
  LET seq == lastSeq[p][name] + 1
      fn == ResolveBinding(p, name)
      c == [page |-> p, name |-> name, seq |-> seq, args |-> args,
            fn |-> fn, done |-> fn = NoFn, at |-> bindOps + 1]
  IN  /\ bindOps < MaxOps
      /\ bindOps' = bindOps + 1
      /\ lastSeq' = [lastSeq EXCEPT ![p][name] = seq]
      /\ calls' = calls \cup {c}
      /\ deliveries' = IF fn = NoFn THEN evaluate(deliveries, Delivery(c))
                       ELSE deliveries
      /\ UNCHANGED <<pageBindings, ctxBindings, exposeCalls, lastCall,
                     debugLog, escalated>>
      /\ UNCHANGED <<observerVars, sessionVars, connVars, inboundVars, permVars, lifeVars, configVars, targetVars, routeVars>>

\* a failed evaluation, as debugError sees it
Failure(c) == [page |-> c.page, name |-> c.name, seq |-> c.seq, at |-> bindOps]

\* mutant: context.evaluate(expression) is awaited without a catch
Dispatch_deliverNoCatch(c, ok) ==
  /\ ~c.done
  /\ calls' = (calls \ {c}) \cup {[c EXCEPT !.done = TRUE]}
  /\ IF ok
     THEN /\ deliveries' = evaluate(deliveries, Delivery(c))
          /\ UNCHANGED <<debugLog, escalated>>
     ELSE /\ escalated' = escalated \cup {Failure(c)}
          /\ UNCHANGED <<deliveries, debugLog>>
  /\ UNCHANGED <<pageBindings, ctxBindings, exposeCalls, lastSeq, lastCall,
                 bindOps>>
  /\ UNCHANGED <<observerVars, sessionVars, connVars, inboundVars, permVars, lifeVars, configVars, targetVars, routeVars>>

\* PageBinding.dispatch resumes after `await binding.playwrightFunction()`:
\* builds the delivery expression and calls
\* context.evaluate(expression).catch(debugError); ok tells whether the
\* evaluation succeeds in the execution context
Dispatch_deliver(c, ok) ==
  /\ ~c.done
  /\ calls' = (calls \ {c}) \cup {[c EXCEPT !.done = TRUE]}
  /\ IF ok
     THEN /\ deliveries' = evaluate(deliveries, Delivery(c))
          /\ UNCHANGED debugLog
     ELSE /\ debugLog' = debugLog \cup {Failure(c)}
          /\ UNCHANGED deliveries
  /\ UNCHANGED <<pageBindings, ctxBindings, exposeCalls, lastSeq, lastCall,
                 bindOps, escalated>>
  /\ UNCHANGED <<observerVars, sessionVars, connVars, inboundVars, permVars, lifeVars, configVars, targetVars, routeVars>>

(***************************************************************************)
(* Initial states                                                          *)
(***************************************************************************)
InitConfig ==
  /\ backend \in Backends
  /\ attachToDefaultContext \in
       (IF backend = "webkit" THEN BOOLEAN ELSE {TRUE})

InitRoutes ==
  /\ pageRoutes = [t \in TargetIds |-> <<>>]
  /\ ctxRoutes = [c \in AllCtx |-> <<>>]
  /\ routeSeq = 0
  /\ lastRequest = NoRequest
  /\ interception = [t \in TargetIds |-> [at |-> 0, needed |-> FALSE]]

InitBindings ==
  /\ pageBindings = [t \in TargetIds |-> EmptyBindings]
  /\ ctxBindings = [c \in AllCtx |-> EmptyBindings]
  /\ lastSeq = [t \in TargetIds |-> [n \in Names |-> 0]]
  /\ exposeCalls = 0
  /\ lastCall = NoCall
  /\ calls = {}
  /\ deliveries = EmptyBindings
  /\ bindOps = 0
  /\ debugLog = {}
  /\ escalated = {}

\* state right after the Browser constructor
InitConnection ==
  /\ sessionState = [x \in SessionIds |->
                       IF x = RootSession THEN "open" ELSE "unattached"]
  /\ protocolCalls = <<>>
  /\ closeTriggers = {}
  /\ disconnectedEmits = 0
  /\ ctxCloseEvents = [c \in AllCtx |-> 0]

\* no close() call made yet
InitClose ==
  /\ closeCalls = <<>>
  /\ lastCloseCall = NoCloseCall
  /\ disposed = {}
  /\ browserClose = "idle"
  /\ emitsAtClose = 0

\* no newPage() call made yet, and no page made by Browser.newPage
InitLifecycle ==
  /\ InitClose
  /\ owned = {}
  /\ newPageCall = NoNewPage
  /\ newContextCall = NoNewContext
  /\ pageCloseCall = NoPageClose

InitInbound ==
  /\ received = [t \in TargetIds |-> <<>>]
  /\ lastInbound = NoInbound
  /\ inboundOps = 0

InitPermissions ==
  /\ ctxPermissions = [c \in AllCtx |-> [o \in Origins |-> <<>>]]
  /\ protocolLog = <<>>
  /\ lastGrant = NoGrant
  /\ permOps = 0

InitTargets ==
  /\ contexts = {}
  /\ targets = {}
  /\ objs = [t \in {} |-> 0]
  /\ popupOpeners = <<>>
  /\ firstPageCalls = 0
  /\ events = [t \in TargetIds |-> <<>>]
  /\ waiting = {}
  /\ announced = 0
  /\ lastCreate = NoCreate
  /\ lastAssert = NoAssert
  /\ lastDestroy = NoDestroy
  /\ debuggees = <<>>
  /\ closedContexts = {}
  /\ connectionClosed = FALSE
  /\ lastClose = NoCtx
  /\ opens = [t \in TargetIds |-> 0]

\* a browser with context c1 created and two targets constructed: page 1
\* (in the default context when WebKit attaches to it, else in c1) and
\* target 2 in c1 (a page, or on Chromium possibly a background page); the
\* notification log starts here
InitPages ==
  /\ contexts = CtxIds
  /\ targets = {1, 2}
  /\ \E c1 \in (IF backend = "webkit" /\ attachToDefaultContext
                 THEN {Default} ELSE {"c1"}),
        t2 \in (IF backend = "chromium" THEN {"page", "background_page"}
                ELSE {"page"}) :
       objs = [t \in {1, 2} |->
                 IF t = 1 THEN TargetObj("page", c1, NoTarget, FALSE, "page")
                 ELSE TargetObj(t2, "c1", NoTarget, FALSE, "page")]
  /\ popupOpeners = <<>>
  /\ firstPageCalls = 1
  /\ events = [t \in TargetIds |-> <<>>]
  /\ waiting = {}
  /\ announced = 2
  /\ lastCreate = NoCreate
  /\ lastAssert = NoAssert
  /\ lastDestroy = NoDestroy
  /\ debuggees = <<>>
  /\ closedContexts = {}
  /\ connectionClosed = FALSE
  /\ lastClose = NoCtx
  /\ opens = [t \in TargetIds |-> 0]

(***************************************************************************)
(* SpecRoute                                                               *)
(***************************************************************************)
InitRoute == InitConfig /\ InitPages /\ InitRoutes /\ InitBindings /\ InitPermissions /\ InitConnection /\ InitInbound /\ InitLifecycle

NextRoute ==
  \/ \E p \in OpenPages, m \in UrlMatches : Page_route(p, m)
  \/ \E c \in LiveContexts, m \in UrlMatches : BrowserContext_route(c, m)
  \/ \E p \in OpenPages, u \in Urls, i \in BOOLEAN :
       Page_requestStarted(p, u, i)

SpecRoute == InitRoute /\ [][NextRoute]_vars

(***************************************************************************)
(* Router claims                                                           *)
(***************************************************************************)
\* handlers of the entries of a table that were registered when request r
\* started and whose url pattern matches it
MatchingIn(routes, r) ==
  {routes[i].handler : i \in {j \in 1 .. Len(routes) :
      routes[j].handler <= r.seq /\ r.url \in routes[j].url}}

PageMatching(r) == MatchingIn(pageRoutes[r.page], r)
CtxMatching(r)  == MatchingIn(ctxRoutes[contextOf(r.page)], r)
Invoked(r)      == {r.outcome.invoked[i] : i \in 1 .. Len(r.outcome.invoked)}
Earliest(hs)    == CHOOSE h \in hs : \A g \in hs : h <= g
Intercepted     == lastRequest.intercepted

\* C1: an intercepted request gets exactly one of {one matching handler
\* invoked, route.continue() called once}; with no matching page-level or
\* context-level route it is continued exactly once.
C1_ExactlyOneOutcome ==
  Intercepted =>
    LET o == lastRequest.outcome
        m == PageMatching(lastRequest) \cup CtxMatching(lastRequest)
    IN  /\ Len(o.invoked) + o.continued = 1
        /\ Invoked(lastRequest) \subseteq m
        /\ m = {} => o.continued = 1
        /\ m # {} => Len(o.invoked) = 1

C1_Witness ==
  /\ Intercepted
  /\ Len(pageRoutes[lastRequest.page]) > 0
  /\ Len(ctxRoutes[contextOf(lastRequest.page)]) > 0
  /\ PageMatching(lastRequest) \cup CtxMatching(lastRequest) = {}
  /\ lastRequest.outcome.continued = 1

\* C2 as stated: of any two matching routes registered in the order R1, R2
\* through Page.route or the context's route, R1's handler is invoked and
\* R2's is not.
C2_AsStated ==
  Intercepted =>
    \A r1, r2 \in PageMatching(lastRequest) \cup CtxMatching(lastRequest) :
      r1 < r2 => r1 \in Invoked(lastRequest) /\ r2 \notin Invoked(lastRequest)

\* C2 amended: of two matching routes registered in the order R1, R2 in the
\* same route table, R2's handler is not invoked; R1's is invoked when no
\* route consulted before it matches (no earlier entry of its table and, for
\* a context-level R1, no page-level route).
C2_FirstRegisteredWins ==
  Intercepted =>
    LET pm == PageMatching(lastRequest)
        cm == CtxMatching(lastRequest)
        inv == Invoked(lastRequest)
    IN  /\ \A r1, r2 \in pm :
             r1 < r2 => /\ r2 \notin inv
                        /\ (\A r0 \in pm : r1 <= r0) => r1 \in inv
        /\ \A r1, r2 \in cm :
             r1 < r2 => /\ r2 \notin inv
                        /\ (pm = {} /\ \A r0 \in cm : r1 <= r0) => r1 \in inv

C2_Witness ==
  /\ Intercepted
  /\ \E r1, r2 \in CtxMatching(lastRequest) : r1 < r2
  /\ PageMatching(lastRequest) = {}
  /\ Invoked(lastRequest) = {Earliest(CtxMatching(lastRequest))}

\* C3: page-level routes are consulted before context-level routes: with a
\* matching page-level route the earliest registered one is the only handler
\* invoked; a context-level handler is invoked only when no page-level route
\* matches, and it is the earliest registered matching one.
C3_PageBeforeContext ==
  Intercepted =>
    LET pm == PageMatching(lastRequest)
        cm == CtxMatching(lastRequest)
        o == lastRequest.outcome
    IN  /\ pm # {} => o.invoked = <<Earliest(pm)>>
        /\ (pm = {} /\ cm # {}) => o.invoked = <<Earliest(cm)>>
        /\ (Invoked(lastRequest) \cap cm # {}) => pm = {}

C3_Witness ==
  /\ Intercepted
  /\ PageMatching(lastRequest) # {}
  /\ \E c \in CtxMatching(lastRequest) : c < Earliest(PageMatching(lastRequest))
  /\ lastRequest.outcome.invoked = <<Earliest(PageMatching(lastRequest))>>

(***************************************************************************)
(* SpecBind                                                                *)
(***************************************************************************)
InitBind == InitConfig /\ InitPages /\ InitRoutes /\ InitBindings /\ InitPermissions /\ InitConnection /\ InitInbound /\ InitLifecycle

NextBind ==
  \/ \E p \in PageObjects, n \in Names, f \in Fns : Page_exposeFunction(p, n, f)
  \/ \E c \in LiveContexts, n \in Names, f \in Fns :
       BrowserContext_exposeFunction(c, n, f)
  \/ \E p \in OpenPages, n \in Names, a \in Args : Page_onBindingCalled(p, n, a)
  \/ \E c \in calls : Dispatch_deliver(c, TRUE)

SpecBind == InitBind /\ [][NextBind]_vars

(***************************************************************************)
(* SpecDeliver: binding calls of pages whose execution contexts may be     *)
(* gone when the result is delivered                                       *)
(***************************************************************************)
NextDeliver ==
  \/ \E p \in PageObjects, f \in Fns : Page_exposeFunction(p, "f", f)
  \/ \E p \in OpenPages, a \in Args : Page_onBindingCalled(p, "f", a)
  \/ \E c \in calls, ok \in BOOLEAN : Dispatch_deliver(c, ok)

SpecDeliver == InitBind /\ [][NextDeliver]_vars

(***************************************************************************)
(* Binding claims                                                          *)
(***************************************************************************)
\* C7: no binding name is present both in a page's own binding map and in
\* the binding map of the page's owning context, for every page object
\* owned by the context (background pages included).
C7_NameUniqueAcrossLevels ==
  \A p \in PageObjects :
    DOMAIN pageBindings[p] \cap DOMAIN ctxBindings[contextOf(p)] = {}

\* the last call was Page.exposeFunction with a name the page already had
DuplicateOnPage ==
  /\ lastCall.op = "Page.exposeFunction"
  /\ has(lastCall.before.page[lastCall.page], lastCall.name)

CallsOf(p, name) == {c \in calls : c.page = p /\ c.name = name}

\* C8: Page.exposeFunction with a name already registered on that page
\* fails with 'already registered', leaves both binding maps unchanged,
\* sends no protocol call, and dispatches for that name invoke the function
\* registered originally.
C8_DuplicateRejected ==
  DuplicateOnPage =>
    /\ lastCall.error = "already registered"
    /\ pageBindings = lastCall.before.page
    /\ ctxBindings = lastCall.before.ctx
    /\ exposeCalls = lastCall.before.sent
    /\ \A c \in CallsOf(lastCall.page, lastCall.name) :
         c.at > lastCall.at =>
           c.fn = lastCall.before.page[lastCall.page][lastCall.name]

C8_Witness ==
  /\ DuplicateOnPage
  /\ lastCall.fn # lastCall.before.page[lastCall.page][lastCall.name]
  /\ \E c \in CallsOf(lastCall.page, lastCall.name) :
       c.at > lastCall.at /\ c.done

\* number of evaluations of delivery expressions carrying c's name and seq
\* in c's page
DeliveredFor(c) ==
  LET ds == {d \in DOMAIN deliveries :
               d.page = c.page /\ d.name = c.name /\ d.seq = c.seq}
      RECURSIVE Sum(_)
      Sum(S) == IF S = {} THEN 0
                ELSE LET d == CHOOSE x \in S : TRUE
                     IN  deliveries[d] + Sum(S \ {d})
  IN  Sum(ds)

\* the delivery the claim expects for a completed call of a registered name
ExpectedDelivery(c) ==
  IF c.fn = "sum"
  THEN [kind |-> "deliverResult", page |-> c.page, name |-> c.name,
        seq |-> c.seq, value |-> c.args + 10, stack |-> ""]
  ELSE IF c.fn = "boom"
  THEN [kind |-> "deliverError", page |-> c.page, name |-> c.name,
        seq |-> c.seq, value |-> "boom", stack |-> "Error: boom"]
  ELSE [kind |-> "deliverErrorValue", page |-> c.page, name |-> c.name,
        seq |-> c.seq, value |-> c.args + 20, stack |-> ""]

\* C9: for a dispatched call of a registered name, exactly one delivery
\* expression is evaluated once the host function has settled, with the
\* call's name and seq: the return value, the thrown Error's message and
\* stack, or the raw thrown value; none is evaluated before.
C9_OneDeliveryPerCall ==
  \A c \in calls :
    c.fn # NoFn =>
      IF c.done
      THEN /\ DeliveredFor(c) = 1
           /\ ExpectedDelivery(c) \in DOMAIN deliveries
      ELSE DeliveredFor(c) = 0

C9_Witness ==
  \E c1, c2 \in calls :
    /\ c1.done /\ c2.done
    /\ c1.page = c2.page /\ c1.name = c2.name /\ c1.seq < c2.seq
    /\ c1.fn = "boom"
    /\ DeliveredFor(c1) = 1 /\ DeliveredFor(c2) = 1

(***************************************************************************)
(* SpecTarget                                                              *)
(***************************************************************************)
InitTarget == InitConfig /\ InitTargets /\ InitRoutes /\ InitBindings /\ InitPermissions /\ InitConnection /\ InitInbound /\ InitLifecycle

NextTarget ==
  \/ \E id \in CtxIds : Browser_newContext(id)
  \/ \E t \in Openers, nb \in BOOLEAN : Browser_onWindowOpen(t, nb)
  \/ \E ty \in PageTypes, c \in CtxIds \cup {NoCtx}, op \in Openers \cup {NoTarget} :
       announced < MaxBuilt /\ Browser_onAttachedToTarget(ty, c, op)
  \/ \E c \in CtxIds \cup {NoCtx} :
       announced < MaxBuilt /\ Browser_targetCreated(c)
  \/ \E t \in DOMAIN objs, r \in {"page", "error"} :
       Target_pageOrErrorSettles(t, r)
  \/ \E t \in TargetIds : TargetDestroyed(t)

SpecTarget == InitTarget /\ [][NextTarget]_vars

(***************************************************************************)
(* SpecPages: targets attached, constructed and destroyed in several       *)
(* contexts, without window-open signals                                   *)
(***************************************************************************)
NextPages ==
  \/ \E id \in CtxIds : Browser_newContext(id)
  \/ \E ty \in PageTypes, c \in CtxIds \cup {NoCtx}, op \in Openers \cup {NoTarget} :
       announced < MaxBuilt /\ Browser_onAttachedToTarget(ty, c, op)
  \/ \E c \in CtxIds \cup {NoCtx} :
       announced < MaxBuilt /\ Browser_targetCreated(c)
  \/ \E t \in DOMAIN objs, r \in {"page", "error"} :
       Target_pageOrErrorSettles(t, r)
  \/ \E t \in TargetIds : TargetDestroyed(t)

SpecPages == InitTarget /\ [][NextPages]_vars

(***************************************************************************)
(* SpecAttach: sessions attached to targets of every type                  *)
(***************************************************************************)
NextAttach ==
  \/ \E ty \in OtherTypes, w \in BOOLEAN : Browser_onAttachedToOther(ty, w)
  \/ \E s \in DOMAIN debuggees, ok \in BOOLEAN : Session_resumeSettles(s, ok)
  \/ \E c \in CtxIds \cup {NoCtx} :
       announced < MaxBuilt /\ Browser_targetCreated(c)
  \/ \E t \in TargetIds : TargetDestroyed(t)

SpecAttach == InitTarget /\ [][NextAttach]_vars

(***************************************************************************)
(* SpecCreate: the registry under target-created / target-destroyed and    *)
(* window-open events alone                                                *)
(***************************************************************************)
NextCreate ==
  \/ \E id \in CtxIds : Browser_newContext(id)
  \/ \E t \in Openers, nb \in BOOLEAN : Browser_onWindowOpen(t, nb)
  \/ \E ty \in PageTypes, c \in CtxIds \cup {NoCtx}, op \in Openers \cup {NoTarget} :
       Browser_onAttachedToTarget(ty, c, op)
  \/ \E c \in CtxIds \cup {NoCtx} : Browser_targetCreated(c)
  \/ \E t \in TargetIds : TargetDestroyed(t)

SpecCreate == InitTarget /\ [][NextCreate]_vars

(***************************************************************************)
(* SpecDuplicate: SpecCreate with an engine that may announce a live id    *)
(* again                                                                   *)
(***************************************************************************)
NextDuplicate ==
  \/ NextCreate
  \/ \E t \in targets, ty \in PageTypes, op \in Openers \cup {NoTarget} :
       Browser_onAttachedToLiveTarget(t, ty, op)

SpecDuplicate == InitTarget /\ [][NextDuplicate]_vars

(***************************************************************************)
(* SpecDestroy: target-destroyed events observed, over a browser with two  *)
(* pages                                                                   *)
(***************************************************************************)
NextDestroy ==
  \/ \E t \in Openers, nb \in BOOLEAN : Browser_onWindowOpen(t, nb)
  \/ \E ty \in PageTypes, c \in CtxIds \cup {NoCtx}, op \in Openers \cup {NoTarget} :
       Browser_onAttachedToTarget(ty, c, op)
  \/ \E t \in TargetIds : TargetDestroyedObserved(t)

SpecDestroy == InitRoute /\ [][NextDestroy]_vars

(***************************************************************************)
(* SpecClose: contexts closed over a browser with two pages, while the     *)
(* connection is open                                                      *)
(***************************************************************************)
NextClose ==
  /\ ~connectionClosed
  /\ \/ \E c \in LiveContexts : BrowserContext_close(c)
     \/ \E t \in Openers, nb \in BOOLEAN : Browser_onWindowOpen(t, nb)
     \/ \E ty \in PageTypes, c \in CtxIds \cup {NoCtx}, op \in Openers \cup {NoTarget} :
          Browser_onAttachedToTarget(ty, c, op)
     \/ \E t \in TargetIds : TargetDestroyed(t)

SpecClose == InitRoute /\ [][NextClose]_vars

(***************************************************************************)
(* SpecPermissions: permissions granted and cleared on the contexts        *)
(***************************************************************************)
NextPermissions ==
  \/ \E c \in LiveContexts, ps \in PermissionLists, o \in OriginOptions :
       BrowserContext_grantPermissions(c, ps, o)
  \/ \E c \in LiveContexts : BrowserContext_clearPermissions(c)

SpecPermissions == InitRoute /\ [][NextPermissions]_vars

(***************************************************************************)
(* SpecConnection: calls on sessions, detach, and the connection closing   *)
(* under a browser with two pages                                          *)
(***************************************************************************)
\* connection.close() is the last step of Browser.close, after the
\* registered contexts have been closed; the transport may close at any time
CloseTriggers == {"close", "transport"}

NextConnection ==
  \/ \E x \in SessionIds : Connection_attachSession(x)
  \/ \E x \in SessionIds : Session_send(x)
  \/ \E id \in 1 .. MaxCalls, ok \in BOOLEAN : Connection_response(id, ok)
  \/ \E x \in SessionIds : Session_detach(x)
  \/ \E tr \in CloseTriggers :
       /\ tr = "close" => contexts \subseteq closedContexts
       /\ Connection_close(tr)
  \/ \E c \in LiveContexts : BrowserContext_close(c)

SpecConnection == InitRoute /\ [][NextConnection]_vars

\* calls, detach and close alone; the engine answers a call for as long
\* as it stays pending
NextSessions ==
  \/ \E x \in SessionIds : Connection_attachSession(x)
  \/ \E x \in SessionIds : Session_send(x)
  \/ \E id \in 1 .. MaxCalls, ok \in BOOLEAN : Connection_response(id, ok)
  \/ \E x \in SessionIds : Session_detach(x)
  \/ \E tr \in CloseTriggers :
       /\ tr = "close" => contexts \subseteq closedContexts
       /\ Connection_close(tr)

SpecSessionsFair ==
  /\ InitRoute /\ [][NextSessions]_vars
  /\ \A id \in 1 .. MaxCalls :
       WF_vars(\E ok \in BOOLEAN : Connection_response(id, ok))

(***************************************************************************)
(* SpecInbound: page proxies created, ignored and destroyed, and inbound   *)
(* events naming any id                                                    *)
(***************************************************************************)
NextInbound ==
  \/ \E id \in CtxIds : Browser_newContext(id)
  \/ \E ty \in PageTypes, c \in CtxIds \cup {NoCtx} :
       announced < MaxBuilt /\ Browser_onAttachedToTarget(ty, c, NoTarget)
  \/ \E t \in TargetIds : TargetDestroyed(t)
  \/ \E t \in TargetIds, k \in InboundKinds : Browser_onPageProxyEvent(t, k)

SpecInbound == InitTarget /\ [][NextInbound]_vars

(***************************************************************************)
(* SpecLifecycle: pages created and destroyed, contexts closed and the     *)
(* connection closing, in any order; no event arrives on a closed          *)
(* connection                                                              *)
(***************************************************************************)
NextLifecycle ==
  \/ /\ ~connectionClosed
     /\ \/ \E ty \in PageTypes, c \in CtxIds \cup {NoCtx} :
             Browser_onAttachedToTarget(ty, c, NoTarget)
        \/ \E t \in DOMAIN objs, r \in {"page", "error"} :
             Target_pageOrErrorSettles(t, r)
        \/ \E t \in TargetIds : TargetDestroyed(t)
  \/ \E c \in LiveContexts : BrowserContext_close(c)
  \/ \E tr \in CloseTriggers :
       /\ tr = "close" => contexts \subseteq closedContexts
       /\ Connection_close(tr)

SpecLifecycle == InitRoute /\ [][NextLifecycle]_vars

(***************************************************************************)
(* Registry claims                                                         *)
(***************************************************************************)
\* targets created with opener x whose creation consumed a window-open
\* signal (implicit initial about:blank)
FlaggedFor(x) ==
  {t \in DOMAIN objs : objs[t].hasInitialAboutBlank /\ objs[t].opener = x}

\* entries of the popup-opener queue still pending for opener x
PendingFor(x) ==
  Cardinality({i \in 1 .. Len(popupOpeners) : popupOpeners[i] = x})

\* C11: every recorded window-open signal for opener x is consumed by at
\* most one target creation: the targets flagged for x plus the entries
\* still pending for x never exceed the signals recorded for x, so after
\* one signal the first target created with opener x is flagged and a
\* second one is not.
C11_SignalConsumedOnce ==
  \A x \in TargetIds :
    Cardinality(FlaggedFor(x)) + PendingFor(x) <= opens[x]

\* C12: a target has an opener reference only if its creation matched a
\* recorded window-open signal for that opener; created with an opener id
\* for which no signal is pending, it has no opener reference
C12_OpenerOnlyIfSignalled ==
  \A t \in DOMAIN objs :
    objs[t].opener # NoTarget => objs[t].hasInitialAboutBlank

\* C13: a target creation for an id already in the registry fails on the
\* assertion and mutates no state: the registry entry stays in place and
\* the popup-opener queue is unchanged
C13_DuplicateCreateMutatesNothing ==
  lastAssert.targetId # NoTarget => lastAssert.after = lastAssert.before

\* C14: a target-destroyed event whose id is not in the registry is
\* ignored: the registry, the popup-opener queue and every page's closed
\* state are unchanged and no notification is emitted
C14_UnknownDestroyIgnored ==
  [][(lastDestroy' # lastDestroy /\ ~lastDestroy'.known)
       => UNCHANGED <<targets, objs, popupOpeners, events, contexts,
                      firstPageCalls, waiting>>]_vars

C14_Witness ==
  /\ lastDestroy.targetId \in DOMAIN objs
  /\ ~lastDestroy.known
  /\ popupOpeners # <<>>
  /\ \E t \in targets : ~objs[t].closed

C11_Witness ==
  \E x \in TargetIds, t1, t2 \in DOMAIN objs :
    /\ opens[x] = 1 /\ PendingFor(x) = 0
    /\ t1 < t2
    /\ objs[t1].opener = x /\ objs[t1].hasInitialAboutBlank
    /\ objs[t2].opener = x /\ ~objs[t2].hasInitialAboutBlank

\* the notifications emitted about target t
EventsOf(t) == {events[t][i] : i \in 1 .. Len(events[t])}

\* C4: a 'new page' or 'popup' notification is emitted for a target only if
\* construction of its page object succeeded; a target whose pageOrError
\* completed with an error has neither
C4_AnnouncedOnlyIfConstructed ==
  \A t \in DOMAIN objs :
    (\E e \in EventsOf(t) : e.kind \in {"page", "popup"})
      => objs[t].result = "page"

\* C5: a target destroyed before its page construction completed ends in
\* the error state and never gets a 'new page' or 'popup' notification
C5_DestroyedWhilePendingIsSilent ==
  \A t \in DOMAIN objs :
    objs[t].destroyedWhilePending
      => /\ objs[t].result \in {"pending", "error"}
         /\ \A e \in EventsOf(t) : e.kind \notin {"page", "popup"}

\* C6: while the close side effects of a destroyed target run (its close
\* notification is emitted), the target is still in the registry
C6_ClosedBeforeRemoved ==
  \A t \in DOMAIN objs :
    \A e \in EventsOf(t) : e.kind = "close" => e.registered

\* _firstPagePromise is satisfied: its resolve callback has been called
firstPageSatisfied == firstPageCalls > 0

\* C15: the 'first target ready' signal is satisfied only after the page
\* object of some target of type 'page' has been constructed successfully,
\* never by a background page, a non-page target or a failed construction
C15_FirstPageOnlyAfterSuccess ==
  firstPageSatisfied =>
    \E t \in DOMAIN objs : objs[t].type = "page" /\ objs[t].result = "page"

\* positions of the notifications of a kind in the log of target t
Positions(t, kind) == {i \in 1 .. Len(events[t]) : events[t][i].kind = kind}

\* targets of type 'page' with a recorded opener
Popups == {t \in DOMAIN objs : objs[t].type = "page" /\ objs[t].opener # NoTarget}

\* the step lets the callback of popup t pass `await opener.pageOrError()`:
\* t's result settles with the opener's already settled, or the opener's
\* result settles while t's callback is suspended on it
PassesAwait(t) ==
  \/ /\ objs[t].result = "pending" /\ objs'[t].result # "pending"
     /\ objs[objs[t].opener].result # "pending"
  \/ t \in waiting /\ t \notin waiting'

\* C16: for a page target with a recorded opener, a 'popup' notification
\* is emitted on the opener exactly when, as the callback passes its await,
\* the opener's result is a page and that page is not closed; it is emitted
\* at most once per target and never before the target's 'new page'
\* notification
C16_PopupIffOpenerOpen ==
  /\ [](\A t \in Popups :
         /\ Cardinality(Positions(t, "popup")) <= 1
         /\ \A i \in Positions(t, "popup") :
              /\ events[t][i].on = objs[t].opener
              /\ \E j \in Positions(t, "page") : j < i)
  /\ [][\A t \in Popups :
         (Len(events'[t]) > Len(events[t])
            /\ events'[t][Len(events'[t])].kind = "popup")
         <=> /\ PassesAwait(t)
             /\ objs'[objs[t].opener].result = "page"
             /\ ~objs'[objs[t].opener].closed]_vars

C16_Witness ==
  \E t \in Popups :
    /\ Positions(t, "popup") # {}
    /\ objs[t].hasInitialAboutBlank
    /\ objs[objs[t].opener].closed

\* targets whose Close notification has been emitted
Closed == {t \in DOMAIN objs : Positions(t, "close") # {}}

\* C17: the pages of a context are exactly the initialized page objects of
\* the targets of type 'page' that are in the registry now and owned by
\* that context: a target removed from the registry is not returned any
\* more, and no page is returned by two contexts
C17_PagesFromLiveRegistry ==
  /\ \A c \in AllCtx :
       pages(c) = {t \in targets : /\ objs[t].type = "page"
                                   /\ objs[t].result = "page"
                                   /\ objs[t].context = c}
  /\ \A c \in AllCtx : pages(c) \cap Closed = {}
  /\ \A c, d \in AllCtx : c # d => pages(c) \cap pages(d) = {}

C17_Witness ==
  \E c \in CtxIds, t, u \in DOMAIN objs :
    /\ pages(c) = {t}
    /\ u \in Closed /\ objs[u].type = "page" /\ objs[u].result = "page"
    /\ objs[u].context = c

\* the positions of message m in the calls sent for session s
SentAt(s, m) == {i \in DOMAIN debuggees[s].sent : debuggees[s].sent[i] = m}

\* C18: attaching a target that is not page-like registers no target and
\* notifies nobody; only when it waits for the debugger a resume call is
\* sent on its session, and the detach call is sent at most once, and only
\* after the resume call settled (with a result or with an error)
C18_ResumeThenDetach ==
  /\ [](\A s \in DOMAIN debuggees :
         /\ ~debuggees[s].waitingForDebugger => debuggees[s].sent = <<>>
         /\ debuggees[s].waitingForDebugger =>
              SentAt(s, "Runtime.runIfWaitingForDebugger") = {1}
         /\ Cardinality(SentAt(s, "Target.detachFromTarget")) <= 1
         /\ \A i \in SentAt(s, "Target.detachFromTarget") :
              \E j \in 1 .. (i - 1) :
                debuggees[s].sent[j] \in {"resumed", "resume failed"}
         /\ (SentAt(s, "resumed") \cup SentAt(s, "resume failed")) # {}
              => SentAt(s, "Target.detachFromTarget") # {})
  /\ [][debuggees' # debuggees
         => UNCHANGED <<targets, objs, events, popupOpeners,
                        firstPageCalls, waiting, contexts>>]_vars

\* a waiting service worker whose resume call failed has been detached,
\* next to a target that is registered
C18_Witness ==
  /\ targets # {}
  /\ \E s \in DOMAIN debuggees :
       /\ debuggees[s].type = "service_worker"
       /\ debuggees[s].sent = <<"Runtime.runIfWaitingForDebugger",
                                "resume failed", "Target.detachFromTarget">>

LastHandler(routes) ==
  IF Len(routes) = 0 THEN 0 ELSE routes[Len(routes)].handler

C21_UnknownPermissionSendsNothing ==
  (\E i \in DOMAIN lastGrant.permissions :
      lastGrant.permissions[i] \notin DOMAIN webPermissionToProtocol)
    => /\ lastGrant.error.kind = "Unknown permission"
       /\ lastGrant.sentAfter = lastGrant.sentBefore

\* a call naming a known and an unknown permission failed after an earlier
\* call had been sent
C21_Witness ==
  /\ Len(lastGrant.permissions) = 2
  /\ lastGrant.error.kind = "Unknown permission"
  /\ lastGrant.permissions[1] \in DOMAIN webPermissionToProtocol
  /\ lastGrant.sentBefore > 0

Pending(id) ==
  id \in DOMAIN protocolCalls /\ protocolCalls[id].outcome = "pending"

\* C22: closing the connection rejects every pending call of every session
\* with one and the same error, and its effects run once however often
\* close is triggered: one Disconnected notification of the browser, and
\* one closed transition for each context
C22_CloseEffectsOnce ==
  /\ [](/\ disconnectedEmits = (IF connectionClosed THEN 1 ELSE 0)
        /\ \A c \in AllCtx :
             ctxCloseEvents[c] = (IF c \in closedContexts THEN 1 ELSE 0)
        /\ connectionClosed =>
             /\ contexts \subseteq closedContexts
             /\ \A id \in DOMAIN protocolCalls : ~Pending(id))
  /\ [][(~connectionClosed /\ connectionClosed') =>
          \A id \in DOMAIN protocolCalls :
            Pending(id) =>
              protocolCalls'[id].outcome = ConnectionClosedError]_vars

\* both triggers have happened; calls of two sessions were rejected by the
\* close, and a registered context was closed by it
C22_Witness ==
  /\ closeTriggers = CloseTriggers
  /\ \E i, j \in DOMAIN protocolCalls :
       /\ protocolCalls[i].session # protocolCalls[j].session
       /\ protocolCalls[i].outcome = ConnectionClosedError
       /\ protocolCalls[j].outcome = ConnectionClosedError
  /\ lastClose = NoCtx
  /\ closedContexts # {}

C24_DetachIsolated ==
  /\ [][\A a \in SessionIds :
          (sessionState[a] = "open" /\ sessionState'[a] = "detached") =>
            \A id \in DOMAIN protocolCalls :
              protocolCalls[id].session # a =>
                protocolCalls'[id] = protocolCalls[id]]_vars
  /\ [][\A id \in DOMAIN protocolCalls :
          (Pending(id) /\ protocolCalls'[id].outcome # "pending") =>
            LET b == protocolCalls[id].session
                o == protocolCalls'[id].outcome
            IN  \/ o \in {"resolved", "failed"} /\ sessionState' = sessionState
                \/ o = TargetClosedError /\ sessionState'[b] = "detached"
                \/ o = ConnectionClosedError /\ connectionClosed']_vars

\* a call of session 2 is still pending after session 1, on which a later
\* call was pending, detached
C24_Witness ==
  /\ Len(protocolCalls) = 2
  /\ protocolCalls[1].session = 2 /\ protocolCalls[1].outcome = "pending"
  /\ protocolCalls[2].session = 1
  /\ protocolCalls[2].outcome = TargetClosedError
  /\ sessionState[1] = "detached"

\* C25: a binding call dispatched from a page invokes the page's own
\* binding of that name when the page has one, also when the owning context
\* has one of the same name; the context's binding is invoked only when the
\* page has none
C25_PageBindingShadowsContext ==
  [][\A c \in calls' \ calls :
       c.at = bindOps + 1 =>
         LET p == c.page
             ctx == contextOf(p)
         IN  /\ has(pageBindings[p], c.name) =>
                  c.fn = pageBindings[p][c.name]
             /\ (~has(pageBindings[p], c.name) /\ has(ctxBindings[ctx], c.name))
                  => c.fn = ctxBindings[ctx][c.name]
             /\ c.fn \in Fns =>
                  (has(pageBindings[p], c.name) \/ has(ctxBindings[ctx], c.name))]_vars

\* a call made from a page while the page and its context hold different
\* functions under the called name went to the page's function
C25_Witness ==
  \E c \in calls :
    LET p == c.page
        ctx == contextOf(p)
    IN  /\ has(pageBindings[p], c.name) /\ has(ctxBindings[ctx], c.name)
        /\ pageBindings[p][c.name] # ctxBindings[ctx][c.name]
        /\ c.at = 3
        /\ c.fn = pageBindings[p][c.name]

\* C26: a delivery expression whose evaluation fails is passed to
\* debugError and nothing else happens: PageBinding.dispatch ends without
\* an error, no page, registry or binding state changes, and the call
\* counts as dispatched
C26_DeliveryFailureSuppressed ==
  /\ [](escalated = {})
  /\ [][debugLog' # debugLog =>
          /\ UNCHANGED <<targetVars, pageBindings, ctxBindings, lastSeq,
                         deliveries, sessionVars, connVars>>
          /\ \A c \in calls : \E d \in calls' :
               /\ d.page = c.page /\ d.name = c.name /\ d.seq = c.seq
               /\ c.done => d.done]_vars

\* after the delivery of one call failed, a later call of the same binding
\* was made and delivered
C26_Witness ==
  \E e \in debugLog, c \in calls :
    /\ c.page = e.page /\ c.name = e.name /\ c.seq > e.seq
    /\ c.at > e.at
    /\ c.done /\ c.fn \in Fns
    /\ DeliveredFor(c) = 1

\* seq is an initial segment of longer
IsPrefix(seq, longer) ==
  /\ Len(seq) <= Len(longer)
  /\ \A i \in DOMAIN seq : longer[i] = seq[i]

\* C27: route tables only grow at the end: in every step each page's and
\* each context's route list is a prefix of its list after the step
C27_RoutesAppendOnly ==
  [][/\ \A p \in TargetIds : IsPrefix(pageRoutes[p], pageRoutes'[p])
     /\ \A c \in AllCtx : IsPrefix(ctxRoutes[c], ctxRoutes'[c])]_vars

\* a page's table and its context's table hold a route each, and a second
\* route was appended to one of the tables
C27_Witness ==
  \E p \in OpenPages :
    /\ Len(pageRoutes[p]) + Len(ctxRoutes[contextOf(p)]) >= 2
    /\ \/ Len(pageRoutes[p]) = 2 /\ pageRoutes[p][1].handler < pageRoutes[p][2].handler
       \/ /\ Len(ctxRoutes[contextOf(p)]) = 2
          /\ ctxRoutes[contextOf(p)][1].handler < ctxRoutes[contextOf(p)][2].handler

\* C28: binding calls in flight do not block one another.  Per page and
\* binding name the stub hands out 1, 2, 3, ... in call order, each number
\* once; whatever the order in which the host functions complete, every
\* delivery carries the name and number of a completed call and that call's
\* own outcome, and each completed call has exactly one delivery
C28_CallsIndependent ==
  /\ \A p \in TargetIds, n \in Names :
       /\ {c.seq : c \in CallsOf(p, n)} = 1 .. lastSeq[p][n]
       /\ \A c1, c2 \in CallsOf(p, n) :
            /\ c1.seq = c2.seq => c1 = c2
            /\ c1.at < c2.at <=> c1.seq < c2.seq
  /\ \A d \in DOMAIN deliveries :
       /\ deliveries[d] = 1
       /\ \E c \in calls :
            /\ c.done
            /\ c.page = d.page /\ c.name = d.name /\ c.seq = d.seq
            /\ c.fn \in Fns => d = ExpectedDelivery(c)
  /\ \A c \in calls : DeliveredFor(c) = (IF c.done THEN 1 ELSE 0)

\* of two calls of one binding in flight together, the later one has been
\* delivered and the earlier one is still running
C28_Witness ==
  \E c1, c2 \in calls :
    /\ c1.page = c2.page /\ c1.name = c2.name /\ c1.seq < c2.seq
    /\ c1.fn \in Fns /\ c2.fn \in Fns
    /\ ~c1.done /\ c2.done
    /\ DeliveredFor(c2) = 1

\* C29: an inbound message or provisional-load-failed event naming a page
\* proxy that is not registered is dropped: no page receives anything and
\* the registry and the notifications stay as they are
C29_UnknownPageProxyDropped ==
  [][(lastInbound' # lastInbound /\ ~lastInbound'.known)
       => UNCHANGED <<received, targets, objs, events, contexts,
                      popupOpeners, firstPageCalls, waiting>>]_vars

\* an event for a destroyed page proxy was dropped after another page
\* proxy had received one
C29_Witness ==
  /\ lastInbound.pageProxyId \in DOMAIN objs \ targets
  /\ ~lastInbound.known
  /\ received[lastInbound.pageProxyId] = <<>>
  /\ \E t \in targets : received[t] # <<>>

\* C30: no context's pages() ever lists a page that is closed, neither in
\* a state between events nor while a Close notification is delivered (the
\* page is out of the registry by the time its listeners run), nor after
\* the connection has disconnected
C30_PagesNeverListClosed ==
  /\ \A c \in AllCtx : \A p \in pages(c) : ~objs[p].closed
  /\ \A t \in PageObjects :
       \A e \in EventsOf(t) : e.kind = "close" => ~e.registered

\* C31: however target-destroyed events, context close and the connection
\* closing interleave, a page is closed at most once: it has one Close
\* notification exactly when it is marked closed, never two, and a page
\* that is closed stays closed
C31_PageClosedOnce ==
  /\ [](\A t \in DOMAIN objs :
         isPageType(objs[t].type) =>
           Cardinality(Positions(t, "close")) =
             (IF objs[t].closed THEN 1 ELSE 0))
  /\ [][\A t \in DOMAIN objs : objs[t].closed => objs'[t].closed]_vars

\* of two pages of one context, one was closed by its target-destroyed
\* event and the other by the connection closing
C31_Witness ==
  /\ connectionClosed
  /\ \E t, u \in PageObjects :
       /\ t \notin targets /\ objs[t].closed
       /\ u # t /\ objs[u].closed /\ objs[u].context = objs[t].context
       /\ Positions(u, "close") # {}
       /\ events[u][Len(events[u])].registered

(***************************************************************************)
(* SpecShutdown: close() calls on a context and on the browser that        *)
(* overlap with each other, with the transport closing and with targets    *)
(* being destroyed                                                         *)
(***************************************************************************)
NextShutdown ==
  \/ \E c \in CtxIds : BrowserContext_closeCalled(c)
  \/ \E i \in 1 .. MaxCalls, ok \in BOOLEAN : BrowserContext_closeSettles(i, ok)
  \/ Browser_closeCalled
  \/ Browser_closeContinues
  \/ Browser_closeResolves
  \/ Connection_close("transport")
  \/ ~connectionClosed /\ \E t \in TargetIds : TargetDestroyed(t)

SpecShutdown == InitRoute /\ [][NextShutdown]_vars

C33_DisconnectClosesEveryContext ==
  disconnectedEmits > 0 =>
    \A c \in contexts \cup {Default} :
      /\ c \in closedContexts
      /\ \A t \in PageObjects : contextOf(t) = c => objs[t].closed

\* C34: a grantPermissions call that fails leaves the permissions stored
\* for the context and origin as they were, and a call naming only
\* permissions the backend knows succeeds
C34_FailedGrantKeepsPermissions ==
  /\ [][(lastGrant' # lastGrant /\ lastGrant'.error # NoError)
          => ctxPermissions' = ctxPermissions]_vars
  /\ []((\A i \in DOMAIN lastGrant.permissions :
           lastGrant.permissions[i] \in DOMAIN webPermissionToProtocol)
        => lastGrant.error = NoError)

(***************************************************************************)
(* SpecNewPage: one newPage() call on a context; the create response, the  *)
(* attach event of the created target, the end of its page's construction  *)
(* and its destruction arrive in any order                                 *)
(***************************************************************************)
\* a browser in which page 1, when it is in c1, may have been made by
\* Browser.newPage
InitNewPage ==
  /\ InitConfig /\ InitPages /\ InitRoutes /\ InitBindings /\ InitPermissions
  /\ InitConnection /\ InitInbound /\ InitClose
  /\ newPageCall = NoNewPage
  /\ newContextCall = NoNewContext
  /\ pageCloseCall = NoPageClose
  /\ owned \in {{}} \cup {{t} : t \in {u \in {1} : objs[u].context \in CtxIds}}

NextNewPage ==
  \/ \E ctx \in LiveContexts : BrowserContext_newPageCalled(ctx)
  \/ /\ ~connectionClosed
     /\ newPageCall.state # "none" /\ announced < newPageCall.target
     /\ Browser_onAttachedToTarget("page",
          browserContextIdOf(newPageCall.context), NoTarget)
  \/ \E ok \in BOOLEAN : BrowserContext_newPageCreated(ok)
  \/ BrowserContext_newPageSettles
  \/ /\ ~connectionClosed
     /\ \/ \E t \in DOMAIN objs, r \in {"page", "error"} :
             Target_pageOrErrorSettles(t, r)
        \/ \E t \in TargetIds : TargetDestroyed(t)
  \/ Connection_close("transport")

SpecNewPage == InitNewPage /\ [][NextNewPage]_vars

\* C35: when newPage() of a context returns, what it returns is a page
\* that is not closed, and it is a page of that context
C35_NewPageOpenAndOwn ==
  /\ [][(newPageCall'.state = "returned" /\ newPageCall.state # "returned")
          => /\ initialized(newPageCall.target)'
             /\ ~objs'[newPageCall.target].closed]_vars
  /\ [](newPageCall.state = "returned"
          => contextOf(newPageCall.target) = newPageCall.context)

\* newPage() of the default context returned a page, which was closed
\* afterwards
C35_Witness ==
  /\ newPageCall.state = "returned"
  /\ newPageCall.context = Default
  /\ objs[newPageCall.target].closed

\* C36: Browser.close closes the connection only once the close() it
\* called on every registered context has completed, it resolves only
\* after Disconnected has been emitted, and the browser is then no longer
\* connected
C36_BrowserCloseOrder ==
  /\ [][("close" \in closeTriggers' /\ "close" \notin closeTriggers)
          => /\ \A i \in BrowserCloseCalls :
                  closeCalls[i].outcome = "resolved"
             /\ contexts \subseteq closedContexts]_vars
  /\ [](browserClose = "resolved"
          => disconnectedEmits > 0 /\ connectionClosed)

\* Browser.close resolved after disposing a context, while a close() call
\* made on that context by the user failed
C36_Witness ==
  /\ browserClose = "resolved"
  /\ \E i \in BrowserCloseCalls : closeCalls[i].outcome = "resolved"
  /\ \E i \in DOMAIN closeCalls : closeCalls[i].outcome = "failed"

(***************************************************************************)
(* SpecNewContext: one newContext() call whose initialization succeeds or  *)
(* fails, while targets are reported with and without its context id       *)
(***************************************************************************)
NextNewContext ==
  \/ \E id \in CtxIds : Browser_newContextCalled(id)
  \/ \E ok \in BOOLEAN : Browser_newContextInitialized(ok)
  \/ \E ty \in PageTypes, c \in CtxIds \cup {NoCtx} :
       announced < MaxBuilt /\ Browser_onAttachedToTarget(ty, c, NoTarget)
  \/ \E t \in DOMAIN objs, r \in {"page", "error"} :
       Target_pageOrErrorSettles(t, r)
  \/ \E t \in TargetIds : TargetDestroyed(t)

SpecNewContext == InitTarget /\ [][NextNewContext]_vars

\* C37: the registry gains a context only when newContext's initialization
\* has succeeded; after a failed initialization the id is not registered
\* and a target reported with it belongs to the default context
C37_OnlyInitializedContextsRegistered ==
  /\ [][contexts' # contexts
          => /\ newContextCall.state = "initializing"
             /\ newContextCall'.state = "registered"]_vars
  /\ [](newContextCall.state = "failed"
          => /\ newContextCall.id \notin contexts
             /\ lastCreate.browserContextId = newContextCall.id
                  => /\ lastCreate.targetId \in DOMAIN objs
                     /\ contextOf(lastCreate.targetId) = Default)

(***************************************************************************)
(* SpecPageClose: one Page.close() call, with the page's target being      *)
(* destroyed, its context being closed and the transport closing at any    *)
(* point                                                                   *)
(***************************************************************************)
NextPageClose ==
  \/ \E p \in PageObjects, rbu \in BOOLEAN : Page_closeCalled(p, rbu)
  \/ \E ok \in BOOLEAN : Page_closePageSettles(ok)
  \/ Page_closeContinues
  \/ Page_closeResolves
  \/ \E c \in CtxIds : BrowserContext_closeCalled(c)
  \/ \E i \in 1 .. MaxCalls, ok \in BOOLEAN : BrowserContext_closeSettles(i, ok)
  \/ ~connectionClosed /\ \E t \in TargetIds : TargetDestroyed(t)
  \/ Connection_close("transport")

SpecPageClose == InitNewPage /\ [][NextPageClose]_vars

\* C38: Page.close on a closed page sends no protocol call; called without
\* runBeforeUnload it resolves only once the page is marked closed, and
\* calls close() of the page's owned context only once the page is marked
\* closed
C38_PageCloseOrder ==
  /\ pageCloseCall.wasClosed
       => ~pageCloseCall.sent /\ pageCloseCall.state = "resolved"
  /\ (pageCloseCall.state # "none" /\ ~pageCloseCall.runBeforeUnload)
       => /\ pageCloseCall.state = "resolved"
               => objs[pageCloseCall.page].closed
          /\ \A i \in DOMAIN closeCalls :
               closeCalls[i].by = "page" => objs[pageCloseCall.page].closed

\* close() without runBeforeUnload on a page with an owned context resolved
\* after disposing that context
C38_Witness ==
  /\ pageCloseCall.state = "resolved" /\ ~pageCloseCall.runBeforeUnload
  /\ pageCloseCall.page \in owned
  /\ \E i \in DOMAIN closeCalls :
       closeCalls[i].by = "page" /\ closeCalls[i].outcome = "resolved"

\* C39: a binding call whose name is registered neither on the page nor on
\* its context has been answered: no host function was chosen for it, an
\* error delivery with the call's name and sequence number was evaluated in
\* its page, and nothing escalated
C39_UnknownBindingAnswered ==
  \A c \in calls :
    c.fn = NoFn =>
      /\ c.done
      /\ \E d \in DOMAIN deliveries :
           /\ d.kind = "deliverError"
           /\ d.page = c.page /\ d.name = c.name /\ d.seq = c.seq
      /\ escalated = {}

\* the second call of a name on a page found no binding, after the first
\* had found none either
C39_Witness ==
  \E c, e \in calls :
    /\ c.fn = NoFn /\ e.fn = NoFn
    /\ c.page = e.page /\ c.name = e.name
    /\ e.seq = 1 /\ c.seq = 2

\* C10: a target-created event with an absent or unregistered context id
\* creates the target in the default context (it is not dropped); with a
\* registered id the target is owned by exactly that context
C10_UnknownContextFallsBack ==
  lastCreate.targetId # NoTarget
    => /\ lastCreate.targetId \in DOMAIN objs
       /\ objs[lastCreate.targetId].context =
            (IF lastCreate.known THEN lastCreate.browserContextId ELSE Default)

====
